---------------------------- MODULE Spec2Model ----------------------------
(***************************************************************************)
(* A model of the NES emulator core: the CPU-side bus (src/bus/bus.go),    *)
(* the 6502 interpreter and its opcode table, and the console that wires   *)
(* them together.                                                          *)
(*                                                                         *)
(* Representation.  bus.memory is a zero-initialised Go array: it is kept  *)
(* sparsely, as the function from the indices that hold a non-zero byte to *)
(* that byte (an index outside the domain holds 0).  rom.prgRom is a Go    *)
(* slice: it is kept as its length and the sparse function of its non-zero *)
(* bytes.  A Go panic ends the process: the model records its kind in      *)
(* `panic` and stops.                                                      *)
(***************************************************************************)
EXTENDS Integers, Sequences, FiniteSets, TLC

VARIABLES
    cpu,      \* the CPU struct's registers (registerA .. programCounter)
    bus,      \* the Bus struct that the CPU reads and writes (cpu.bus): rom
              \* and memory
    run,      \* where the client is: "constructed" | "loaded" | "ready" (Reset
              \* done) | "running" (in CPU.Run) | "returned" | "panic"
    panic,    \* "none" or the kind of the panic that ended the process
    steps,    \* iterations of the loop of CPU.Run made since Run was entered
    lastOp,   \* the call made by the last step, its inputs and its result
    lastJsr,  \* the last JSR step that completed: where it was, SP before it
    consoleBus \* the bus field of the NesConsole struct: the Bus value that
              \* NewConsole stored in it (NewBus where there is no console)

vars == <<cpu, bus, run, panic, steps, lastOp, lastJsr, consoleBus>>

---------------------------------------------------------------------------
(* Fixed-width integers and bit operations *)

U8(n) == n % 256

U16(n) == n % 65536

RECURSIVE BitAnd(_, _)
BitAnd(a, b) ==
    IF a = 0 \/ b = 0 THEN 0
    ELSE (a % 2) * (b % 2) + 2 * BitAnd(a \div 2, b \div 2)

RECURSIVE BitOr(_, _)
BitOr(a, b) ==
    IF a = 0 THEN b
    ELSE IF b = 0 THEN a
    ELSE (IF (a % 2) + (b % 2) > 0 THEN 1 ELSE 0) + 2 * BitOr(a \div 2, b \div 2)

RECURSIVE BitXor(_, _)
BitXor(a, b) ==
    IF a = 0 THEN b
    ELSE IF b = 0 THEN a
    ELSE ((a + b) % 2) + 2 * BitXor(a \div 2, b \div 2)

\* ^uint8(x)
Not8(a) == 255 - a

\* binary.LittleEndian.Uint16([]uint8{lo, hi})
LittleEndianUint16(lo, hi) == lo + 256 * hi

\* binary.LittleEndian.PutUint16(bytes, v): <<bytes[0], bytes[1]>>
LittleEndianPutUint16(v) == <<v % 256, v \div 256>>

---------------------------------------------------------------------------
(* Sparse arrays *)

ArrayGet(arr, i) == IF i \in DOMAIN arr THEN arr[i] ELSE 0

ArraySet(arr, i, v) ==
    [j \in (IF v = 0 THEN DOMAIN arr \ {i} ELSE DOMAIN arr \cup {i}) |->
        IF j = i THEN v ELSE arr[j]]

EmptyArray == [j \in {} |-> 0]

---------------------------------------------------------------------------
(* The bus: src/bus/bus.go *)

CPU_RAM_START == 0
CPU_RAM_MIRRORS_END == 8191
PPU_REGISTERS_START == 8192
PPU_REGISTERS_MIRRORS_END == 16383
PRG_ROM_START == 32768
PRG_ROM_END == 65535

\* len(bus.memory): [0xffff]uint8
MemorySize == 65535

\* A nil *Rom (NewBus leaves bus.rom unset).
NilRom == [prgRomLen |-> -1, prgRom |-> EmptyArray]

\* What a read yields when it panics instead of returning a byte.
ReadUnsupported == -1
ReadOutOfRange == -2
ReadNil == -3

IsPanic(r) == r < 0

PanicKind(r) ==
    CASE r = ReadUnsupported -> "UnsupportedAddress"
      [] r = ReadOutOfRange -> "IndexOutOfRange"
      [] r = ReadNil -> "NilRom"
      [] OTHER -> "none"

\* Faulty variants of the bus, which the properties of the bus must reject.

\* readPrgROM without the 16 KiB mirror: the window maps directly for any size.
readPrgROMUnmirrored(b, address) ==
    IF b.rom = NilRom THEN ReadNil
    ELSE IF U16(address - 32768) >= b.rom.prgRomLen THEN ReadOutOfRange
    ELSE ArrayGet(b.rom.prgRom, U16(address - 32768))

\* MemoryRead with an open bus: the unmapped region reads as 0.
MemoryReadOpenBus(b, address) ==
    IF address <= 8191 THEN ArrayGet(b.memory, BitAnd(address, 2047))
    ELSE IF address <= 16383 THEN ArrayGet(b.memory, BitAnd(address, 8199))
    ELSE IF address >= 32768
    THEN ArrayGet(b.rom.prgRom,
                  IF b.rom.prgRomLen = 16384 THEN address % 16384 ELSE address - 32768)
    ELSE 0

\* MemoryWrite with a RAM mask of 0x0FFF: the mirrors are 4 KiB apart.
MemoryWriteUnmirrored(b, address, data) ==
    IF address <= 8191
    THEN [bus |-> [b EXCEPT !.memory = ArraySet(@, BitAnd(address, 4095), data)],
          panic |-> "none"]
    ELSE IF address <= 16383
    THEN [bus |-> [b EXCEPT !.memory = ArraySet(@, BitAnd(address, 8199), data)],
          panic |-> "none"]
    ELSE IF address >= 32768
    THEN [bus |-> b, panic |-> "PrgRomWrite"]
    ELSE [bus |-> b, panic |-> "UnsupportedAddress"]

\* MemoryWrite with no mask in the PPU-register window: every address of the
\* window has a cell of its own.
MemoryWritePpuUnmirrored(b, address, data) ==
    IF address <= 8191
    THEN [bus |-> [b EXCEPT !.memory = ArraySet(@, BitAnd(address, 2047), data)],
          panic |-> "none"]
    ELSE IF address <= 16383
    THEN [bus |-> [b EXCEPT !.memory = ArraySet(@, address, data)],
          panic |-> "none"]
    ELSE IF address >= 32768
    THEN [bus |-> b, panic |-> "PrgRomWrite"]
    ELSE [bus |-> b, panic |-> "UnsupportedAddress"]

\* MemoryWrite that stores through to the cartridge in the PRG-ROM window.
MemoryWriteThroughRom(b, address, data) ==
    IF address <= 8191
    THEN [bus |-> [b EXCEPT !.memory = ArraySet(@, BitAnd(address, 2047), data)],
          panic |-> "none"]
    ELSE IF address <= 16383
    THEN [bus |-> [b EXCEPT !.memory = ArraySet(@, BitAnd(address, 8199), data)],
          panic |-> "none"]
    ELSE IF address >= 32768
    THEN [bus |-> [b EXCEPT !.rom.prgRom =
                        ArraySet(@, IF b.rom.prgRomLen = 16384 THEN address % 16384
                                    ELSE address - 32768, data)],
          panic |-> "none"]
    ELSE [bus |-> b, panic |-> "UnsupportedAddress"]

readPrgROM(b, address) ==
    LET unmirroredAddress ==
            IF b.rom.prgRomLen = 16384 /\ address >= 16384
            THEN address % 16384
            ELSE U16(address - 32768)
    IN  IF b.rom = NilRom THEN ReadNil
        ELSE IF unmirroredAddress >= b.rom.prgRomLen THEN ReadOutOfRange
        ELSE ArrayGet(b.rom.prgRom, unmirroredAddress)

MemoryRead(b, address) ==
    IF CPU_RAM_START <= address /\ address <= CPU_RAM_MIRRORS_END
    THEN ArrayGet(b.memory, BitAnd(address, 2047))
    ELSE IF PPU_REGISTERS_START <= address /\ address <= PPU_REGISTERS_MIRRORS_END
    THEN ArrayGet(b.memory, BitAnd(address, 8199))
    ELSE IF PRG_ROM_START <= address /\ address <= PRG_ROM_END
    THEN readPrgROM(b, address)
    ELSE ReadUnsupported

\* The bus after MemoryWrite and the panic it raised ("none": it returned).
MemoryWrite(b, address, data) ==
    IF CPU_RAM_START <= address /\ address <= CPU_RAM_MIRRORS_END
    THEN [bus |-> [b EXCEPT !.memory = ArraySet(@, BitAnd(address, 2047), data)],
          panic |-> "none"]
    ELSE IF PPU_REGISTERS_START <= address /\ address <= PPU_REGISTERS_MIRRORS_END
    THEN [bus |-> [b EXCEPT !.memory = ArraySet(@, BitAnd(address, 8199), data)],
          panic |-> "none"]
    ELSE IF PRG_ROM_START <= address /\ address <= PRG_ROM_END
    THEN [bus |-> b, panic |-> "PrgRomWrite"]
    ELSE [bus |-> b, panic |-> "UnsupportedAddress"]

NewBus == [rom |-> NilRom, memory |-> EmptyArray]

LoadRom(b, rom) == [b EXCEPT !.rom = rom]

---------------------------------------------------------------------------
(* The cartridge file: src/unnamed/part_006 *)

(* A Go byte slice is kept as its length, its capacity and the sparse      *)
(* function of the non-zero bytes of its backing array.  An index          *)
(* expression panics outside the length, a slice expression outside the    *)
(* capacity.  ParseRawRom yields a record: kind "rom" (rom, nil),          *)
(* "error" (an empty Rom and an error value), or "panic".                  *)

PRG_ROM_PAGE_SIZE == 16384
CHR_ROM_PAGE_SIZE == 8192

\* The slice raw[low : high] of a slice that allows it.
SliceOf(raw, low, high) ==
    [j \in {k - low : k \in {i \in DOMAIN raw.bytes : low <= i /\ i < high}} |->
        raw.bytes[j + low]]

EmptyRom ==
    [prgRomLen |-> 0, prgRom |-> EmptyArray, chrRomLen |-> 0, chrRom |-> EmptyArray,
     mapper |-> 0, screenMirroring |-> "VERTICAL"]

ParseRawRom(raw) ==
    LET numberOfROMBanks == ArrayGet(raw.bytes, 4)
        numberOfVROMBanks == ArrayGet(raw.bytes, 5)
        control1 == ArrayGet(raw.bytes, 6)
        control2 == ArrayGet(raw.bytes, 7)
        isVerticalMirroring == BitAnd(control1, 1) # 0
        isTrainerEnabled == BitAnd(control1, 4) # 0
        isFourScreenEnabled == BitAnd(control1, 8) # 0
        mapper == BitOr(control1 \div 16, BitAnd(control2, 240))
        isINESV2 == BitAnd(control2, 12) # 0
        nesTag == <<ArrayGet(raw.bytes, 0), ArrayGet(raw.bytes, 1),
                    ArrayGet(raw.bytes, 2), ArrayGet(raw.bytes, 3)>>
        screenMirroring == IF isFourScreenEnabled THEN "FOUR_SCREEN"
                           ELSE IF isVerticalMirroring THEN "VERTICAL"
                           ELSE "HORIZONTAL"
        prgROMSize == numberOfROMBanks * PRG_ROM_PAGE_SIZE
        chrROMSize == numberOfVROMBanks * CHR_ROM_PAGE_SIZE
        prgROMStart == IF isTrainerEnabled THEN 16 + 512 ELSE 16
        chrROMStart == prgROMStart + prgROMSize
    IN  \* raw[0:4], then raw[4], raw[5], raw[6] and raw[7]
        IF raw.cap < 4 THEN [kind |-> "panic", panic |-> "SliceBounds"]
        ELSE IF raw.len < 8 THEN [kind |-> "panic", panic |-> "IndexOutOfRange"]
        ELSE IF nesTag # <<78, 69, 83, 26>>
        THEN [kind |-> "error", rom |-> EmptyRom, error |-> "invalid tag"]
        ELSE IF isINESV2
        THEN [kind |-> "error", rom |-> EmptyRom, error |-> "iNES v2"]
        \* raw[prgROMStart : prgROMStart+prgROMSize], then the CHR slice
        ELSE IF chrROMStart + chrROMSize > raw.cap
        THEN [kind |-> "panic", panic |-> "SliceBounds"]
        ELSE [kind |-> "rom",
              rom |-> [prgRomLen |-> prgROMSize,
                       prgRom |-> SliceOf(raw, prgROMStart, prgROMStart + prgROMSize),
                       chrRomLen |-> chrROMSize,
                       chrRom |-> SliceOf(raw, chrROMStart, chrROMStart + chrROMSize),
                       mapper |-> mapper,
                       screenMirroring |-> screenMirroring]]

---------------------------------------------------------------------------
(* Construction: NewCPU *)

STACK_BASE == 256
STACK_RESET == 253

NewCPU ==
    [registerA |-> 0, registerX |-> 0, registerY |-> 0,
     statusFlags |-> 36, stackPointer |-> STACK_RESET, programCounter |-> 0]

---------------------------------------------------------------------------
(* The CPU.  Its operators act on a machine m = [cpu, bus, panic]: the     *)
(* registers, the bus the CPU points to, and the panic raised so far.      *)

Machine(c, b) == [cpu |-> c, bus |-> b, panic |-> "none"]

Panicked(m) == m.panic # "none"

Raise(m, kind) == [m EXCEPT !.panic = kind]

isNegative(value) == BitAnd(value, 128) # 0

CARRY_FLAG == 1
ZERO_FLAG == 2
INTERRUPT_DISABLE_FLAG == 4
DECIMAL_FLAG == 8
BREAK_FLAG == 16
BREAK_2_FLAG == 32
OVERFLOW_FLAG == 64
NEGATIVE_FLAG == 128

\* Faulty variant: a flag that is set is toggled, not set again.
setFlagToValueToggling(m, statusFlag, value) ==
    IF value
    THEN [m EXCEPT !.cpu.statusFlags = BitXor(@, statusFlag)]
    ELSE [m EXCEPT !.cpu.statusFlags = BitAnd(@, Not8(statusFlag))]

setFlagToValue(m, statusFlag, value) ==
    IF value
    THEN [m EXCEPT !.cpu.statusFlags = BitOr(@, statusFlag)]
    ELSE [m EXCEPT !.cpu.statusFlags = BitAnd(@, Not8(statusFlag))]

isFlagSet(m, statusFlag) == BitAnd(m.cpu.statusFlags, statusFlag) # 0

\* Faulty variant: the carry is cleared along with the update of Z and N.
setZeroFlagAndNegativeFlagClearingCarry(m, result) ==
    setFlagToValue(setFlagToValue(setFlagToValue(m, ZERO_FLAG, result = 0),
                                  NEGATIVE_FLAG, isNegative(result)),
                   CARRY_FLAG, FALSE)

setZeroFlagAndNegativeFlagForResult(m, result) ==
    setFlagToValue(setFlagToValue(m, ZERO_FLAG, result = 0),
                   NEGATIVE_FLAG, isNegative(result))

(* Memory helpers *)

memoryRead(m, address) == MemoryRead(m.bus, address)

memoryWrite(m, address, data) ==
    LET w == MemoryWrite(m.bus, address, data)
    IN  [m EXCEPT !.bus = w.bus, !.panic = w.panic]

\* Bus.MemoryReadU16: the byte at address, then the byte at address + 1.
\* Faulty variant: the second byte is taken inside the page of the first.
MemoryReadU16SamePage(b, address) ==
    LET lo == MemoryRead(b, address)
        hi == MemoryRead(b, (address - (address % 256)) + ((address + 1) % 256))
    IN  IF IsPanic(lo) THEN lo
        ELSE IF IsPanic(hi) THEN hi
        ELSE LittleEndianUint16(lo, hi)

MemoryReadU16(b, address) ==
    LET lo == MemoryRead(b, address)
        hi == MemoryRead(b, U16(address + 1))
    IN  IF IsPanic(lo) THEN lo
        ELSE IF IsPanic(hi) THEN hi
        ELSE LittleEndianUint16(lo, hi)

\* Bus.MemoryWriteU16: the low byte at address, then the high byte at address + 1.
MemoryWriteU16(b, address, data) ==
    LET bytes == LittleEndianPutUint16(data)
        w1 == MemoryWrite(b, address, bytes[1])
    IN  IF w1.panic # "none" THEN w1
        ELSE MemoryWrite(w1.bus, U16(address + 1), bytes[2])

memoryReadU16(m, address) == MemoryReadU16(m.bus, address)

(* Stack helpers *)

\* Faulty variant: a push that stops at the bottom of the stack page instead of
\* wrapping the stack pointer from 0x00 to 0xFF.
pushStackSaturating(m, value) ==
    LET w == memoryWrite(m, STACK_BASE + m.cpu.stackPointer, value)
    IN  IF Panicked(w) THEN w
        ELSE [w EXCEPT !.cpu.stackPointer = IF @ = 0 THEN 0 ELSE @ - 1]

pushStack(m, value) ==
    LET w == memoryWrite(m, STACK_BASE + m.cpu.stackPointer, value)
    IN  IF Panicked(w) THEN w
        ELSE [w EXCEPT !.cpu.stackPointer = U8(@ - 1 + 256)]

\* Faulty variant: a pull whose stack pointer leaves the byte range, so that a
\* pull from SP = 0xFF reads 0x0200.
pullStackUnwrapped(m) ==
    LET m1 == [m EXCEPT !.cpu.stackPointer = @ + 1]
    IN  [m |-> m1, value |-> memoryRead(m1, STACK_BASE + m1.cpu.stackPointer)]

\* The machine after the pull and the byte pulled.
pullStack(m) ==
    LET m1 == [m EXCEPT !.cpu.stackPointer = U8(@ + 1)]
    IN  [m |-> m1, value |-> memoryRead(m1, STACK_BASE + m1.cpu.stackPointer)]

pushStackU16(m, value) ==
    LET bytes == LittleEndianPutUint16(value)
        m1 == pushStack(m, bytes[2])
    IN  IF Panicked(m1) THEN m1 ELSE pushStack(m1, bytes[1])

pullStackU16(m) ==
    LET p0 == pullStack(m)
        p1 == pullStack(p0.m)
    IN  [m |-> p1.m, value |-> LittleEndianUint16(p0.value, p1.value)]

(* Addressing modes: the address of the operand, or the panic of a read *)

\* Faulty variant: no wrap inside the zero page, and no page wrap of the
\* pointer of JMP (indirect).
getOperandAddressUnwrapped(m, mode, opCodeProgramCounter) ==
    LET next == memoryRead(m, U16(opCodeProgramCounter + 1))
        next16 == memoryReadU16(m, U16(opCodeProgramCounter + 1))
    IN
    CASE mode = "Implied" -> 0
      [] mode = "Accumulator" -> 0
      [] mode = "Immediate" -> U16(opCodeProgramCounter + 1)
      [] mode = "Relative" ->
            IF IsPanic(next) THEN next
            ELSE IF ~isNegative(next)
            THEN U16(opCodeProgramCounter + next + 2)
            ELSE U16(opCodeProgramCounter - (256 - next) + 2 + 65536)
      [] mode = "ZeroPage" -> next
      [] mode = "ZeroPageX" ->
            IF IsPanic(next) THEN next ELSE next + m.cpu.registerX
      [] mode = "ZeroPageY" ->
            IF IsPanic(next) THEN next ELSE next + m.cpu.registerY
      [] mode = "Absolute" -> next16
      [] mode = "AbsoluteX" ->
            IF IsPanic(next16) THEN next16 ELSE U16(next16 + m.cpu.registerX)
      [] mode = "AbsoluteY" ->
            IF IsPanic(next16) THEN next16 ELSE U16(next16 + m.cpu.registerY)
      [] mode = "Indirect" ->
            IF IsPanic(next16) THEN next16
            ELSE IF FALSE
            THEN LET pageBeginning == BitAnd(next16, 65280)
                     lo == memoryRead(m, next16)
                     hi == memoryRead(m, pageBeginning)
                 IN  IF IsPanic(lo) THEN lo
                     ELSE IF IsPanic(hi) THEN hi
                     ELSE LittleEndianUint16(lo, hi)
            ELSE memoryReadU16(m, next16)
      [] mode = "IndirectX" ->
            IF IsPanic(next) THEN next
            ELSE LET lo == memoryRead(m, U8(next + m.cpu.registerX))
                     hi == memoryRead(m, U8(next + m.cpu.registerX) + 1)
                 IN  IF IsPanic(lo) THEN lo
                     ELSE IF IsPanic(hi) THEN hi
                     ELSE LittleEndianUint16(lo, hi)
      [] mode = "IndirectY" ->
            IF IsPanic(next) THEN next
            ELSE LET lo == memoryRead(m, next)
                     hi == memoryRead(m, next + 1)
                 IN  IF IsPanic(lo) THEN lo
                     ELSE IF IsPanic(hi) THEN hi
                     ELSE U16(LittleEndianUint16(lo, hi) + m.cpu.registerY)

getOperandAddress(m, mode, opCodeProgramCounter) ==
    LET next == memoryRead(m, U16(opCodeProgramCounter + 1))
        next16 == memoryReadU16(m, U16(opCodeProgramCounter + 1))
    IN
    CASE mode = "Implied" -> 0
      [] mode = "Accumulator" -> 0
      [] mode = "Immediate" -> U16(opCodeProgramCounter + 1)
      [] mode = "Relative" ->
            IF IsPanic(next) THEN next
            ELSE IF ~isNegative(next)
            THEN U16(opCodeProgramCounter + next + 2)
            ELSE U16(opCodeProgramCounter - (256 - next) + 2 + 65536)
      [] mode = "ZeroPage" -> next
      [] mode = "ZeroPageX" ->
            IF IsPanic(next) THEN next ELSE U8(next + m.cpu.registerX)
      [] mode = "ZeroPageY" ->
            IF IsPanic(next) THEN next ELSE U8(next + m.cpu.registerY)
      [] mode = "Absolute" -> next16
      [] mode = "AbsoluteX" ->
            IF IsPanic(next16) THEN next16 ELSE U16(next16 + m.cpu.registerX)
      [] mode = "AbsoluteY" ->
            IF IsPanic(next16) THEN next16 ELSE U16(next16 + m.cpu.registerY)
      [] mode = "Indirect" ->
            IF IsPanic(next16) THEN next16
            ELSE IF BitAnd(next16, 255) = 255
            THEN LET pageBeginning == BitAnd(next16, 65280)
                     lo == memoryRead(m, next16)
                     hi == memoryRead(m, pageBeginning)
                 IN  IF IsPanic(lo) THEN lo
                     ELSE IF IsPanic(hi) THEN hi
                     ELSE LittleEndianUint16(lo, hi)
            ELSE memoryReadU16(m, next16)
      [] mode = "IndirectX" ->
            IF IsPanic(next) THEN next
            ELSE LET lo == memoryRead(m, U8(next + m.cpu.registerX))
                     hi == memoryRead(m, U8(next + m.cpu.registerX + 1))
                 IN  IF IsPanic(lo) THEN lo
                     ELSE IF IsPanic(hi) THEN hi
                     ELSE LittleEndianUint16(lo, hi)
      [] mode = "IndirectY" ->
            IF IsPanic(next) THEN next
            ELSE LET lo == memoryRead(m, next)
                     hi == memoryRead(m, U8(next + 1))
                 IN  IF IsPanic(lo) THEN lo
                     ELSE IF IsPanic(hi) THEN hi
                     ELSE U16(LittleEndianUint16(lo, hi) + m.cpu.registerY)

(* Helpers for the operations *)

\* Faulty variant: the overflow is taken to be the carry out.
addWithCarryOverflowFromCarry(a, b, carry) ==
    LET sum == a + b + (IF carry THEN 1 ELSE 0)
    IN  [result |-> U8(sum),
         hasCarry |-> (sum \div 256) # 0,
         hasOverflow |-> (sum \div 256) # 0]

addWithCarry(a, b, carry) ==
    LET sum == a + b + (IF carry THEN 1 ELSE 0)
        result == U8(sum)
    IN  [result |-> result,
         hasCarry |-> (sum \div 256) # 0,
         hasOverflow |-> BitAnd(BitAnd(BitXor(a, result), BitXor(b, result)), 128) # 0]

branch(m, cpuStepInfos, condition) ==
    IF condition
    THEN [m EXCEPT !.cpu.programCounter = cpuStepInfos.operandAddress]
    ELSE m

\* The operand byte of the step: memoryRead(cpuStepInfos.operandAddress).
operandOf(m, cpuStepInfos) == memoryRead(m, cpuStepInfos.operandAddress)

(* Opcode table helpers: src/unnamed/part_005 *)

\* Faulty variant: every operand is taken to be one byte long.
getNumberOfBytesReadOneByteOperands(addressingMode) ==
    IF addressingMode \in {"Implied", "Accumulator"} THEN 1 ELSE 2

getNumberOfBytesReadForOperation(addressingMode) ==
    CASE addressingMode \in {"Implied", "Accumulator"} -> 1
      [] addressingMode \in {"Relative", "Immediate", "ZeroPage", "ZeroPageX",
                             "ZeroPageY", "IndirectX", "IndirectY"} -> 2
      [] addressingMode \in {"Indirect", "Absolute", "AbsoluteX", "AbsoluteY"} -> 3

(* The operations: one operator per method of the CPU, in the source's order *)

adc(m, cpuStepInfos) ==
    LET operand == operandOf(m, cpuStepInfos)
    IN  IF IsPanic(operand) THEN Raise(m, PanicKind(operand))
        ELSE LET r == addWithCarry(m.cpu.registerA, operand, isFlagSet(m, CARRY_FLAG))
             m1 == [m EXCEPT !.cpu.registerA = r.result]
             m2 == setFlagToValue(m1, CARRY_FLAG, r.hasCarry)
             m3 == setFlagToValue(m2, OVERFLOW_FLAG, r.hasOverflow)
         IN  setZeroFlagAndNegativeFlagForResult(m3, r.result)

and(m, cpuStepInfos) ==
    LET operand == operandOf(m, cpuStepInfos)
    IN  IF IsPanic(operand) THEN Raise(m, PanicKind(operand))
        ELSE LET result == BitAnd(m.cpu.registerA, operand)
             IN  setZeroFlagAndNegativeFlagForResult(
                     [m EXCEPT !.cpu.registerA = result], result)

asl(m, cpuStepInfos) ==
    IF cpuStepInfos.opCode.addressingMode = "Accumulator"
    THEN LET result == U8(m.cpu.registerA * 2)
             m1 == setFlagToValue(m, CARRY_FLAG, BitAnd(m.cpu.registerA, 128) # 0)
         IN  setZeroFlagAndNegativeFlagForResult(
                 [m1 EXCEPT !.cpu.registerA = result], result)
    ELSE LET operand == operandOf(m, cpuStepInfos)
             result == U8(operand * 2)
             m1 == setFlagToValue(m, CARRY_FLAG, BitAnd(operand, 128) # 0)
             m2 == memoryWrite(m1, cpuStepInfos.operandAddress, result)
         IN  IF IsPanic(operand) THEN Raise(m, PanicKind(operand))
             ELSE IF Panicked(m2) THEN m2
             ELSE setZeroFlagAndNegativeFlagForResult(m2, result)

bcc(m, cpuStepInfos) == branch(m, cpuStepInfos, ~isFlagSet(m, CARRY_FLAG))

bcs(m, cpuStepInfos) == branch(m, cpuStepInfos, isFlagSet(m, CARRY_FLAG))

beq(m, cpuStepInfos) == branch(m, cpuStepInfos, isFlagSet(m, ZERO_FLAG))

\* Faulty variant: the result of the AND is stored in A, as AND does.
bitStoringResult(m, cpuStepInfos) ==
    LET operand == operandOf(m, cpuStepInfos)
    IN  IF IsPanic(operand) THEN Raise(m, PanicKind(operand))
        ELSE LET result == BitAnd(operand, m.cpu.registerA)
                 m1 == setFlagToValue([m EXCEPT !.cpu.registerA = result], ZERO_FLAG, result = 0)
                 m2 == setFlagToValue(m1, NEGATIVE_FLAG, isNegative(operand))
             IN  setFlagToValue(m2, OVERFLOW_FLAG, BitAnd(operand, 64) # 0)

bit(m, cpuStepInfos) ==
    LET operand == operandOf(m, cpuStepInfos)
    IN  IF IsPanic(operand) THEN Raise(m, PanicKind(operand))
        ELSE LET result == BitAnd(operand, m.cpu.registerA)
                 m1 == setFlagToValue(m, ZERO_FLAG, result = 0)
                 m2 == setFlagToValue(m1, NEGATIVE_FLAG, isNegative(operand))
             IN  setFlagToValue(m2, OVERFLOW_FLAG, BitAnd(operand, 64) # 0)

bmi(m, cpuStepInfos) == branch(m, cpuStepInfos, isFlagSet(m, NEGATIVE_FLAG))

bne(m, cpuStepInfos) == branch(m, cpuStepInfos, ~isFlagSet(m, ZERO_FLAG))

bpl(m, cpuStepInfos) == branch(m, cpuStepInfos, ~isFlagSet(m, NEGATIVE_FLAG))

bvc(m, cpuStepInfos) == branch(m, cpuStepInfos, ~isFlagSet(m, OVERFLOW_FLAG))

bvs(m, cpuStepInfos) == branch(m, cpuStepInfos, isFlagSet(m, OVERFLOW_FLAG))

clc(m, cpuStepInfos) == setFlagToValue(m, CARRY_FLAG, FALSE)

cld(m, cpuStepInfos) == setFlagToValue(m, DECIMAL_FLAG, FALSE)

cli(m, cpuStepInfos) == setFlagToValue(m, INTERRUPT_DISABLE_FLAG, FALSE)

clv(m, cpuStepInfos) == setFlagToValue(m, OVERFLOW_FLAG, FALSE)

\* Faulty variant: the comparison is signed, the carry is the sign of the
\* difference.
compareSigned(m, cpuStepInfos, compareWith) ==
    LET operand == operandOf(m, cpuStepInfos)
        result == U8(compareWith - operand + 256)
    IN  IF IsPanic(operand) THEN Raise(m, PanicKind(operand))
        ELSE setFlagToValue(setZeroFlagAndNegativeFlagForResult(m, result),
                            CARRY_FLAG, ~isNegative(result))

compare(m, cpuStepInfos, compareWith) ==
    LET operand == operandOf(m, cpuStepInfos)
        result == U8(compareWith - operand + 256)
    IN  IF IsPanic(operand) THEN Raise(m, PanicKind(operand))
        ELSE setFlagToValue(setZeroFlagAndNegativeFlagForResult(m, result),
                            CARRY_FLAG, compareWith >= operand)

cmp(m, cpuStepInfos) == compare(m, cpuStepInfos, m.cpu.registerA)

cpx(m, cpuStepInfos) == compare(m, cpuStepInfos, m.cpu.registerX)

cpy(m, cpuStepInfos) == compare(m, cpuStepInfos, m.cpu.registerY)

dec(m, cpuStepInfos) ==
    LET operand == operandOf(m, cpuStepInfos)
        result == U8(operand + 255)
        m1 == memoryWrite(m, cpuStepInfos.operandAddress, result)
    IN  IF IsPanic(operand) THEN Raise(m, PanicKind(operand))
        ELSE IF Panicked(m1) THEN m1
        ELSE setZeroFlagAndNegativeFlagForResult(m1, result)

dex(m, cpuStepInfos) ==
    LET result == U8(m.cpu.registerX + 255)
    IN  setZeroFlagAndNegativeFlagForResult(
            [m EXCEPT !.cpu.registerX = result], result)

dey(m, cpuStepInfos) ==
    LET result == U8(m.cpu.registerY + 255)
    IN  setZeroFlagAndNegativeFlagForResult(
            [m EXCEPT !.cpu.registerY = result], result)

eor(m, cpuStepInfos) ==
    LET operand == operandOf(m, cpuStepInfos)
    IN  IF IsPanic(operand) THEN Raise(m, PanicKind(operand))
        ELSE LET result == BitXor(m.cpu.registerA, operand)
             IN  setZeroFlagAndNegativeFlagForResult(
                     [m EXCEPT !.cpu.registerA = result], result)

inc(m, cpuStepInfos) ==
    LET operand == operandOf(m, cpuStepInfos)
        result == U8(operand + 1)
        m1 == memoryWrite(m, cpuStepInfos.operandAddress, result)
    IN  IF IsPanic(operand) THEN Raise(m, PanicKind(operand))
        ELSE IF Panicked(m1) THEN m1
        ELSE setZeroFlagAndNegativeFlagForResult(m1, result)

\* Faulty variant: an INX that stops at 0xFF instead of wrapping to 0x00.
inxSaturating(m, cpuStepInfos) ==
    LET result == IF m.cpu.registerX = 255 THEN 255 ELSE m.cpu.registerX + 1
    IN  setZeroFlagAndNegativeFlagForResult([m EXCEPT !.cpu.registerX = result], result)

inx(m, cpuStepInfos) ==
    LET result == U8(m.cpu.registerX + 1)
    IN  setZeroFlagAndNegativeFlagForResult(
            [m EXCEPT !.cpu.registerX = result], result)

iny(m, cpuStepInfos) ==
    LET result == U8(m.cpu.registerY + 1)
    IN  setZeroFlagAndNegativeFlagForResult(
            [m EXCEPT !.cpu.registerY = result], result)

jmp(m, cpuStepInfos) == [m EXCEPT !.cpu.programCounter = cpuStepInfos.operandAddress]

jsr(m, cpuStepInfos) ==
    LET m1 == pushStackU16(m, U16(m.cpu.programCounter
                  + getNumberOfBytesReadForOperation(cpuStepInfos.opCode.addressingMode)
                  - 1))
    IN  IF Panicked(m1) THEN m1
        ELSE [m1 EXCEPT !.cpu.programCounter = cpuStepInfos.operandAddress]

lda(m, cpuStepInfos) ==
    LET operand == operandOf(m, cpuStepInfos)
    IN  IF IsPanic(operand) THEN Raise(m, PanicKind(operand))
        ELSE setZeroFlagAndNegativeFlagForResult(
                 [m EXCEPT !.cpu.registerA = operand], operand)

ldx(m, cpuStepInfos) ==
    LET operand == operandOf(m, cpuStepInfos)
    IN  IF IsPanic(operand) THEN Raise(m, PanicKind(operand))
        ELSE setZeroFlagAndNegativeFlagForResult(
                 [m EXCEPT !.cpu.registerX = operand], operand)

ldy(m, cpuStepInfos) ==
    LET operand == operandOf(m, cpuStepInfos)
    IN  IF IsPanic(operand) THEN Raise(m, PanicKind(operand))
        ELSE setZeroFlagAndNegativeFlagForResult(
                 [m EXCEPT !.cpu.registerY = operand], operand)

lsr(m, cpuStepInfos) ==
    IF cpuStepInfos.opCode.addressingMode = "Accumulator"
    THEN LET result == (m.cpu.registerA \div 2)
             m1 == setFlagToValue(m, CARRY_FLAG, BitAnd(m.cpu.registerA, 1) # 0)
         IN  setZeroFlagAndNegativeFlagForResult(
                 [m1 EXCEPT !.cpu.registerA = result], result)
    ELSE LET operand == operandOf(m, cpuStepInfos)
             result == (operand \div 2)
             m1 == setFlagToValue(m, CARRY_FLAG, BitAnd(operand, 1) # 0)
             m2 == memoryWrite(m1, cpuStepInfos.operandAddress, result)
         IN  IF IsPanic(operand) THEN Raise(m, PanicKind(operand))
             ELSE IF Panicked(m2) THEN m2
             ELSE setZeroFlagAndNegativeFlagForResult(m2, result)

nop(m, cpuStepInfos) == m

ora(m, cpuStepInfos) ==
    LET operand == operandOf(m, cpuStepInfos)
    IN  IF IsPanic(operand) THEN Raise(m, PanicKind(operand))
        ELSE LET result == BitOr(m.cpu.registerA, operand)
             IN  setZeroFlagAndNegativeFlagForResult(
                     [m EXCEPT !.cpu.registerA = result], result)

pha(m, cpuStepInfos) == pushStack(m, m.cpu.registerA)

\* Faulty variant: the running status is pushed as it is, bit 4 clear.
phpRunningStatus(m, cpuStepInfos) == pushStack(m, m.cpu.statusFlags)

php(m, cpuStepInfos) ==
    pushStack(m, BitOr(BitOr(m.cpu.statusFlags, BREAK_FLAG), BREAK_2_FLAG))

pla(m, cpuStepInfos) ==
    LET p == pullStack(m)
    IN  IF IsPanic(p.value) THEN Raise(p.m, PanicKind(p.value))
        ELSE setZeroFlagAndNegativeFlagForResult(
                 [p.m EXCEPT !.cpu.registerA = p.value], p.value)

\* Faulty variant: a PLP that takes the pulled byte as the status register
\* without forcing bits 4 and 5.
plpVerbatim(m, cpuStepInfos) ==
    LET p == pullStack(m)
    IN  IF IsPanic(p.value) THEN Raise(p.m, PanicKind(p.value))
        ELSE [p.m EXCEPT !.cpu.statusFlags = p.value]

plp(m, cpuStepInfos) ==
    LET p == pullStack(m)
        m1 == [p.m EXCEPT !.cpu.statusFlags = p.value]
    IN  IF IsPanic(p.value) THEN Raise(p.m, PanicKind(p.value))
        ELSE setFlagToValue(setFlagToValue(m1, BREAK_FLAG, FALSE),
                            BREAK_2_FLAG, TRUE)

rol(m, cpuStepInfos) ==
    LET carryMask == IF isFlagSet(m, CARRY_FLAG) THEN 1 ELSE 0 IN
    IF cpuStepInfos.opCode.addressingMode = "Accumulator"
    THEN LET result == BitOr(U8(m.cpu.registerA * 2), carryMask)
             m1 == setFlagToValue(m, CARRY_FLAG, BitAnd(m.cpu.registerA, 128) # 0)
         IN  setZeroFlagAndNegativeFlagForResult(
                 [m1 EXCEPT !.cpu.registerA = result], result)
    ELSE LET operand == operandOf(m, cpuStepInfos)
             result == BitOr(U8(operand * 2), carryMask)
             m1 == setFlagToValue(m, CARRY_FLAG, BitAnd(operand, 128) # 0)
             m2 == memoryWrite(m1, cpuStepInfos.operandAddress, result)
         IN  IF IsPanic(operand) THEN Raise(m, PanicKind(operand))
             ELSE IF Panicked(m2) THEN m2
             ELSE setZeroFlagAndNegativeFlagForResult(m2, result)

\* Faulty variant: the carry is not rotated in, bit 7 is filled with 0.
rorWithoutCarryIn(m, cpuStepInfos) ==
    IF cpuStepInfos.opCode.addressingMode = "Accumulator"
    THEN LET result == m.cpu.registerA \div 2
             m1 == setFlagToValue(m, CARRY_FLAG, BitAnd(m.cpu.registerA, 1) # 0)
         IN  setZeroFlagAndNegativeFlagForResult(
                 [m1 EXCEPT !.cpu.registerA = result], result)
    ELSE LET operand == operandOf(m, cpuStepInfos)
             result == operand \div 2
             m1 == setFlagToValue(m, CARRY_FLAG, BitAnd(operand, 1) # 0)
             m2 == memoryWrite(m1, cpuStepInfos.operandAddress, result)
         IN  IF IsPanic(operand) THEN Raise(m, PanicKind(operand))
             ELSE IF Panicked(m2) THEN m2
             ELSE setZeroFlagAndNegativeFlagForResult(m2, result)

ror(m, cpuStepInfos) ==
    LET carryMask == IF isFlagSet(m, CARRY_FLAG) THEN 128 ELSE 0 IN
    IF cpuStepInfos.opCode.addressingMode = "Accumulator"
    THEN LET result == BitOr(m.cpu.registerA \div 2, carryMask)
             m1 == setFlagToValue(m, CARRY_FLAG, BitAnd(m.cpu.registerA, 1) # 0)
         IN  setZeroFlagAndNegativeFlagForResult(
                 [m1 EXCEPT !.cpu.registerA = result], result)
    ELSE LET operand == operandOf(m, cpuStepInfos)
             result == BitOr(operand \div 2, carryMask)
             m1 == setFlagToValue(m, CARRY_FLAG, BitAnd(operand, 1) # 0)
             m2 == memoryWrite(m1, cpuStepInfos.operandAddress, result)
         IN  IF IsPanic(operand) THEN Raise(m, PanicKind(operand))
             ELSE IF Panicked(m2) THEN m2
             ELSE setZeroFlagAndNegativeFlagForResult(m2, result)

\* Faulty variant: bit 4 of the pulled status byte is kept.
rtiKeepingBreak(m, cpuStepInfos) ==
    LET p == pullStack(m)
        m1 == [p.m EXCEPT !.cpu.statusFlags = p.value]
        m2 == setFlagToValue(m1, BREAK_2_FLAG, TRUE)
        q == pullStackU16(m2)
    IN  IF IsPanic(p.value) THEN Raise(p.m, PanicKind(p.value))
        ELSE [q.m EXCEPT !.cpu.programCounter = q.value]

rti(m, cpuStepInfos) ==
    LET p == pullStack(m)
        m1 == [p.m EXCEPT !.cpu.statusFlags = p.value]
        m2 == setFlagToValue(setFlagToValue(m1, BREAK_FLAG, FALSE),
                             BREAK_2_FLAG, TRUE)
        q == pullStackU16(m2)
    IN  IF IsPanic(p.value) THEN Raise(p.m, PanicKind(p.value))
        ELSE [q.m EXCEPT !.cpu.programCounter = q.value]

rts(m, cpuStepInfos) ==
    LET q == pullStackU16(m)
    IN  [q.m EXCEPT !.cpu.programCounter = U16(q.value + 1)]

\* Faulty variant: the operand is negated (256 - M) instead of complemented.
sbcNegatingOperand(m, cpuStepInfos) ==
    LET operand == operandOf(m, cpuStepInfos)
    IN  IF IsPanic(operand) THEN Raise(m, PanicKind(operand))
        ELSE LET r == addWithCarry(m.cpu.registerA, U8(256 - operand), isFlagSet(m, CARRY_FLAG))
             m1 == [m EXCEPT !.cpu.registerA = r.result]
             m2 == setFlagToValue(m1, CARRY_FLAG, r.hasCarry)
             m3 == setFlagToValue(m2, OVERFLOW_FLAG, r.hasOverflow)
         IN  setZeroFlagAndNegativeFlagForResult(m3, r.result)

\* Faulty variant: the carry is not taken as the borrow, A - M always.
sbcIgnoringBorrow(m, cpuStepInfos) ==
    LET operand == operandOf(m, cpuStepInfos)
    IN  IF IsPanic(operand) THEN Raise(m, PanicKind(operand))
        ELSE LET r == addWithCarry(m.cpu.registerA, 255 - operand, TRUE)
             m1 == [m EXCEPT !.cpu.registerA = r.result]
             m2 == setFlagToValue(m1, CARRY_FLAG, r.hasCarry)
             m3 == setFlagToValue(m2, OVERFLOW_FLAG, r.hasOverflow)
         IN  setZeroFlagAndNegativeFlagForResult(m3, r.result)

sbc(m, cpuStepInfos) ==
    LET operand == operandOf(m, cpuStepInfos)
    IN  IF IsPanic(operand) THEN Raise(m, PanicKind(operand))
        ELSE LET r == addWithCarry(m.cpu.registerA, 255 - operand, isFlagSet(m, CARRY_FLAG))
             m1 == [m EXCEPT !.cpu.registerA = r.result]
             m2 == setFlagToValue(m1, CARRY_FLAG, r.hasCarry)
             m3 == setFlagToValue(m2, OVERFLOW_FLAG, r.hasOverflow)
         IN  setZeroFlagAndNegativeFlagForResult(m3, r.result)

sec(m, cpuStepInfos) == setFlagToValue(m, CARRY_FLAG, TRUE)

sed(m, cpuStepInfos) == setFlagToValue(m, DECIMAL_FLAG, TRUE)

sei(m, cpuStepInfos) == setFlagToValue(m, INTERRUPT_DISABLE_FLAG, TRUE)

sta(m, cpuStepInfos) == memoryWrite(m, cpuStepInfos.operandAddress, m.cpu.registerA)

stx(m, cpuStepInfos) == memoryWrite(m, cpuStepInfos.operandAddress, m.cpu.registerX)

sty(m, cpuStepInfos) == memoryWrite(m, cpuStepInfos.operandAddress, m.cpu.registerY)

tax(m, cpuStepInfos) ==
    setZeroFlagAndNegativeFlagForResult(
        [m EXCEPT !.cpu.registerX = m.cpu.registerA], m.cpu.registerA)

tay(m, cpuStepInfos) ==
    setZeroFlagAndNegativeFlagForResult(
        [m EXCEPT !.cpu.registerY = m.cpu.registerA], m.cpu.registerA)

tsx(m, cpuStepInfos) ==
    setZeroFlagAndNegativeFlagForResult(
        [m EXCEPT !.cpu.registerX = m.cpu.stackPointer], m.cpu.stackPointer)

txa(m, cpuStepInfos) ==
    setZeroFlagAndNegativeFlagForResult(
        [m EXCEPT !.cpu.registerA = m.cpu.registerX], m.cpu.registerX)

txs(m, cpuStepInfos) == [m EXCEPT !.cpu.stackPointer = m.cpu.registerX]

tya(m, cpuStepInfos) ==
    setZeroFlagAndNegativeFlagForResult(
        [m EXCEPT !.cpu.registerA = m.cpu.registerY], m.cpu.registerY)

(* Undocumented operations *)

aac(m, cpuStepInfos) ==
    LET operand == operandOf(m, cpuStepInfos)
        result == BitAnd(operand, m.cpu.registerA)
    IN  IF IsPanic(operand) THEN Raise(m, PanicKind(operand))
        ELSE setFlagToValue(setZeroFlagAndNegativeFlagForResult(m, result),
                            CARRY_FLAG, isNegative(result))

aax(m, cpuStepInfos) ==
    memoryWrite(m, cpuStepInfos.operandAddress, BitAnd(m.cpu.registerA, m.cpu.registerX))

\* isBit5Set and isBit6Set compare a masked byte with 1: with the masks 0x10 and
\* 0x20 the comparison is never true.
arr(m, cpuStepInfos) ==
    LET operand == operandOf(m, cpuStepInfos)
        carryMask == IF isFlagSet(m, CARRY_FLAG) THEN 128 ELSE 0
        result == BitOr(BitAnd(operand, m.cpu.registerA) \div 2, carryMask)
        m1 == setZeroFlagAndNegativeFlagForResult(
                  [m EXCEPT !.cpu.registerA = result], result)
        isBit5Set == BitAnd(result, 16) = 1
        isBit6Set == BitAnd(result, 32) = 1
        m2 == setFlagToValue(m1, CARRY_FLAG, BitAnd(result, 1) # 0)
        m3 == setFlagToValue(m2, CARRY_FLAG, isBit6Set)
    IN  IF IsPanic(operand) THEN Raise(m, PanicKind(operand))
        ELSE setFlagToValue(m3, OVERFLOW_FLAG, isBit6Set # isBit5Set)

asr(m, cpuStepInfos) ==
    LET operand == operandOf(m, cpuStepInfos)
        anded == BitAnd(operand, m.cpu.registerA)
        result == anded \div 2
        m1 == setFlagToValue(m, CARRY_FLAG, BitAnd(anded, 1) # 0)
    IN  IF IsPanic(operand) THEN Raise(m, PanicKind(operand))
        ELSE setZeroFlagAndNegativeFlagForResult(
                 [m1 EXCEPT !.cpu.registerA = result], result)

atx(m, cpuStepInfos) ==
    LET operand == operandOf(m, cpuStepInfos)
        result == BitAnd(operand, m.cpu.registerA)
    IN  IF IsPanic(operand) THEN Raise(m, PanicKind(operand))
        ELSE setZeroFlagAndNegativeFlagForResult(
                 [m EXCEPT !.cpu.registerA = result, !.cpu.registerX = result], result)

axa(m, cpuStepInfos) ==
    memoryWrite(m, cpuStepInfos.operandAddress,
                BitAnd(BitAnd(m.cpu.registerA, m.cpu.registerX),
                       U8(cpuStepInfos.operandAddress \div 256)))

axs(m, cpuStepInfos) ==
    LET m1 == memoryWrite(m, cpuStepInfos.operandAddress, m.cpu.registerA)
    IN  IF Panicked(m1) THEN m1
        ELSE memoryWrite(m1, cpuStepInfos.operandAddress, m.cpu.registerX)

dcp(m, cpuStepInfos) ==
    LET operand == operandOf(m, cpuStepInfos)
        m1 == memoryWrite(m, cpuStepInfos.operandAddress, U8(operand + 255))
    IN  IF IsPanic(operand) THEN Raise(m, PanicKind(operand))
        ELSE IF Panicked(m1) THEN m1
        ELSE compare(m1, cpuStepInfos, m1.cpu.registerA)

dop(m, cpuStepInfos) == m

isc(m, cpuStepInfos) ==
    LET operand == operandOf(m, cpuStepInfos)
        result == U8(operand + 1)
        m0 == memoryWrite(m, cpuStepInfos.operandAddress, result)
        r == addWithCarry(m0.cpu.registerA, 255 - result, isFlagSet(m0, CARRY_FLAG))
        m1 == [m0 EXCEPT !.cpu.registerA = r.result]
        m2 == setFlagToValue(m1, CARRY_FLAG, r.hasCarry)
        m3 == setFlagToValue(m2, OVERFLOW_FLAG, r.hasOverflow)
    IN  IF IsPanic(operand) THEN Raise(m, PanicKind(operand))
        ELSE IF Panicked(m0) THEN m0
        ELSE setZeroFlagAndNegativeFlagForResult(m3, r.result)

\* Faulty variant: KIL does nothing, as a NOP.
kilNoOp(m, cpuStepInfos) == m

kil(m, cpuStepInfos) == Raise(m, "kil")

lar(m, cpuStepInfos) ==
    LET operand == operandOf(m, cpuStepInfos)
        result == BitAnd(operand, m.cpu.stackPointer)
    IN  IF IsPanic(operand) THEN Raise(m, PanicKind(operand))
        ELSE setZeroFlagAndNegativeFlagForResult(
                 [m EXCEPT !.cpu.registerA = result, !.cpu.registerX = result,
                           !.cpu.stackPointer = result], result)

lax(m, cpuStepInfos) ==
    LET operand == operandOf(m, cpuStepInfos)
    IN  IF IsPanic(operand) THEN Raise(m, PanicKind(operand))
        ELSE setZeroFlagAndNegativeFlagForResult(
                 [m EXCEPT !.cpu.registerA = operand, !.cpu.registerX = operand], operand)

rla(m, cpuStepInfos) ==
    LET carryMask == IF isFlagSet(m, CARRY_FLAG) THEN 1 ELSE 0
        operand == operandOf(m, cpuStepInfos)
        result == BitOr(U8(operand * 2), carryMask)
        m1 == setFlagToValue(m, CARRY_FLAG, BitAnd(operand, 128) # 0)
        m2 == memoryWrite(m1, cpuStepInfos.operandAddress, result)
        anded == BitAnd(result, m2.cpu.registerA)
    IN  IF IsPanic(operand) THEN Raise(m, PanicKind(operand))
        ELSE IF Panicked(m2) THEN m2
        ELSE setZeroFlagAndNegativeFlagForResult(
                 [m2 EXCEPT !.cpu.registerA = anded], anded)

\* Faulty variant: the addition takes the carry that was set before the
\* rotation, not the bit rotated out.
rraStaleCarry(m, cpuStepInfos) ==
    LET carryMask == IF isFlagSet(m, CARRY_FLAG) THEN 128 ELSE 0
        operand == operandOf(m, cpuStepInfos)
        result == BitOr(operand \div 2, carryMask)
        m2 == memoryWrite(m, cpuStepInfos.operandAddress, result)
        r == addWithCarry(m2.cpu.registerA, result, isFlagSet(m, CARRY_FLAG))
        m4 == [m2 EXCEPT !.cpu.registerA = r.result]
        m5 == setFlagToValue(m4, CARRY_FLAG, r.hasCarry)
        m6 == setFlagToValue(m5, OVERFLOW_FLAG, r.hasOverflow)
    IN  IF IsPanic(operand) THEN Raise(m, PanicKind(operand))
        ELSE IF Panicked(m2) THEN m2
        ELSE setZeroFlagAndNegativeFlagForResult(m6, r.result)

rra(m, cpuStepInfos) ==
    LET carryMask == IF isFlagSet(m, CARRY_FLAG) THEN 128 ELSE 0
        operand == operandOf(m, cpuStepInfos)
        result == BitOr(operand \div 2, carryMask)
        m1 == setFlagToValue(m, CARRY_FLAG, BitAnd(operand, 1) # 0)
        m2 == memoryWrite(m1, cpuStepInfos.operandAddress, result)
        m3 == setZeroFlagAndNegativeFlagForResult(m2, result)
        r == addWithCarry(m3.cpu.registerA, result, isFlagSet(m3, CARRY_FLAG))
        m4 == [m3 EXCEPT !.cpu.registerA = r.result]
        m5 == setFlagToValue(m4, CARRY_FLAG, r.hasCarry)
        m6 == setFlagToValue(m5, OVERFLOW_FLAG, r.hasOverflow)
    IN  IF IsPanic(operand) THEN Raise(m, PanicKind(operand))
        ELSE IF Panicked(m2) THEN m2
        ELSE setZeroFlagAndNegativeFlagForResult(m6, r.result)

slo(m, cpuStepInfos) ==
    LET operand == operandOf(m, cpuStepInfos)
        result == U8(operand * 2)
        m1 == setFlagToValue(m, CARRY_FLAG, BitAnd(operand, 128) # 0)
        m2 == memoryWrite(m1, cpuStepInfos.operandAddress, result)
        ored == BitOr(result, m2.cpu.registerA)
    IN  IF IsPanic(operand) THEN Raise(m, PanicKind(operand))
        ELSE IF Panicked(m2) THEN m2
        ELSE setZeroFlagAndNegativeFlagForResult(
                 [m2 EXCEPT !.cpu.registerA = ored], ored)

sre(m, cpuStepInfos) ==
    LET operand == operandOf(m, cpuStepInfos)
        result == operand \div 2
        m1 == setFlagToValue(m, CARRY_FLAG, BitAnd(operand, 1) # 0)
        m2 == memoryWrite(m1, cpuStepInfos.operandAddress, result)
        xored == BitXor(m2.cpu.registerA, result)
    IN  IF IsPanic(operand) THEN Raise(m, PanicKind(operand))
        ELSE IF Panicked(m2) THEN m2
        ELSE setZeroFlagAndNegativeFlagForResult(
                 [m2 EXCEPT !.cpu.registerA = xored], xored)

sxa(m, cpuStepInfos) ==
    memoryWrite(m, cpuStepInfos.operandAddress,
                BitAnd(U8(U8(cpuStepInfos.operandAddress \div 256) + 1), m.cpu.registerX))

sya(m, cpuStepInfos) ==
    memoryWrite(m, cpuStepInfos.operandAddress,
                BitAnd(U8(U8(cpuStepInfos.operandAddress \div 256) + 1), m.cpu.registerY))

top(m, cpuStepInfos) == m

xaa(m, cpuStepInfos) == Raise(m, "xaa")

xas(m, cpuStepInfos) ==
    LET sp == BitAnd(m.cpu.registerA, m.cpu.registerX)
        m1 == [m EXCEPT !.cpu.stackPointer = sp]
    IN  memoryWrite(m1, cpuStepInfos.operandAddress,
                    BitAnd(U8(U8(cpuStepInfos.operandAddress \div 256) + 1), sp))

(* The opcode table: src/unnamed/part_005 *)

OpCode(operation, addressingMode, cycles) ==
    [operation |-> operation, addressingMode |-> addressingMode, cycles |-> cycles]

hexToOpsCode ==
    (105 :> OpCode("ADC", "Immediate", 2))
    @@ (101 :> OpCode("ADC", "ZeroPage", 3))
    @@ (117 :> OpCode("ADC", "ZeroPageX", 4))
    @@ (109 :> OpCode("ADC", "Absolute", 4))
    @@ (125 :> OpCode("ADC", "AbsoluteX", 4))
    @@ (121 :> OpCode("ADC", "AbsoluteY", 4))
    @@ (97 :> OpCode("ADC", "IndirectX", 6))
    @@ (113 :> OpCode("ADC", "IndirectY", 5))
    @@ (41 :> OpCode("AND", "Immediate", 2))
    @@ (37 :> OpCode("AND", "ZeroPage", 3))
    @@ (53 :> OpCode("AND", "ZeroPageX", 4))
    @@ (45 :> OpCode("AND", "Absolute", 4))
    @@ (61 :> OpCode("AND", "AbsoluteX", 4))
    @@ (57 :> OpCode("AND", "AbsoluteY", 4))
    @@ (33 :> OpCode("AND", "IndirectX", 6))
    @@ (49 :> OpCode("AND", "IndirectY", 5))
    @@ (10 :> OpCode("ASL", "Accumulator", 2))
    @@ (6 :> OpCode("ASL", "ZeroPage", 5))
    @@ (22 :> OpCode("ASL", "ZeroPageX", 6))
    @@ (14 :> OpCode("ASL", "Absolute", 6))
    @@ (30 :> OpCode("ASL", "AbsoluteX", 7))
    @@ (144 :> OpCode("BCC", "Relative", 2))
    @@ (176 :> OpCode("BCS", "Relative", 2))
    @@ (240 :> OpCode("BEQ", "Relative", 2))
    @@ (36 :> OpCode("BIT", "ZeroPage", 3))
    @@ (44 :> OpCode("BIT", "Absolute", 4))
    @@ (48 :> OpCode("BMI", "Relative", 2))
    @@ (208 :> OpCode("BNE", "Relative", 2))
    @@ (16 :> OpCode("BPL", "Relative", 2))
    @@ (0 :> OpCode("BRK", "Implied", 7))
    @@ (80 :> OpCode("BVC", "Relative", 2))
    @@ (112 :> OpCode("BVS", "Relative", 2))
    @@ (24 :> OpCode("CLC", "Implied", 2))
    @@ (216 :> OpCode("CLD", "Implied", 2))
    @@ (88 :> OpCode("CLI", "Implied", 2))
    @@ (184 :> OpCode("CLV", "Implied", 2))
    @@ (201 :> OpCode("CMP", "Immediate", 2))
    @@ (197 :> OpCode("CMP", "ZeroPage", 3))
    @@ (213 :> OpCode("CMP", "ZeroPageX", 4))
    @@ (205 :> OpCode("CMP", "Absolute", 4))
    @@ (221 :> OpCode("CMP", "AbsoluteX", 4))
    @@ (217 :> OpCode("CMP", "AbsoluteY", 4))
    @@ (193 :> OpCode("CMP", "IndirectX", 6))
    @@ (209 :> OpCode("CMP", "IndirectY", 5))
    @@ (224 :> OpCode("CPX", "Immediate", 2))
    @@ (228 :> OpCode("CPX", "ZeroPage", 3))
    @@ (236 :> OpCode("CPX", "Absolute", 4))
    @@ (192 :> OpCode("CPY", "Immediate", 2))
    @@ (196 :> OpCode("CPY", "ZeroPage", 3))
    @@ (204 :> OpCode("CPY", "Absolute", 4))
    @@ (198 :> OpCode("DEC", "ZeroPage", 5))
    @@ (214 :> OpCode("DEC", "ZeroPageX", 6))
    @@ (206 :> OpCode("DEC", "Absolute", 6))
    @@ (222 :> OpCode("DEC", "AbsoluteX", 7))
    @@ (202 :> OpCode("DEX", "Implied", 2))
    @@ (136 :> OpCode("DEY", "Implied", 2))
    @@ (73 :> OpCode("EOR", "Immediate", 2))
    @@ (69 :> OpCode("EOR", "ZeroPage", 3))
    @@ (85 :> OpCode("EOR", "ZeroPageX", 4))
    @@ (77 :> OpCode("EOR", "Absolute", 4))
    @@ (93 :> OpCode("EOR", "AbsoluteX", 4))
    @@ (89 :> OpCode("EOR", "AbsoluteY", 4))
    @@ (65 :> OpCode("EOR", "IndirectX", 6))
    @@ (81 :> OpCode("EOR", "IndirectY", 5))
    @@ (230 :> OpCode("INC", "ZeroPage", 5))
    @@ (246 :> OpCode("INC", "ZeroPageX", 6))
    @@ (238 :> OpCode("INC", "Absolute", 6))
    @@ (254 :> OpCode("INC", "AbsoluteX", 7))
    @@ (232 :> OpCode("INX", "Implied", 2))
    @@ (200 :> OpCode("INY", "Implied", 2))
    @@ (76 :> OpCode("JMP", "Absolute", 3))
    @@ (108 :> OpCode("JMP", "Indirect", 5))
    @@ (32 :> OpCode("JSR", "Absolute", 6))
    @@ (169 :> OpCode("LDA", "Immediate", 2))
    @@ (165 :> OpCode("LDA", "ZeroPage", 3))
    @@ (181 :> OpCode("LDA", "ZeroPageX", 4))
    @@ (173 :> OpCode("LDA", "Absolute", 4))
    @@ (189 :> OpCode("LDA", "AbsoluteX", 4))
    @@ (185 :> OpCode("LDA", "AbsoluteY", 4))
    @@ (161 :> OpCode("LDA", "IndirectX", 6))
    @@ (177 :> OpCode("LDA", "IndirectY", 5))
    @@ (162 :> OpCode("LDX", "Immediate", 2))
    @@ (166 :> OpCode("LDX", "ZeroPage", 3))
    @@ (182 :> OpCode("LDX", "ZeroPageY", 4))
    @@ (174 :> OpCode("LDX", "Absolute", 4))
    @@ (190 :> OpCode("LDX", "AbsoluteY", 4))
    @@ (160 :> OpCode("LDY", "Immediate", 2))
    @@ (164 :> OpCode("LDY", "ZeroPage", 3))
    @@ (180 :> OpCode("LDY", "ZeroPageX", 4))
    @@ (172 :> OpCode("LDY", "Absolute", 4))
    @@ (188 :> OpCode("LDY", "AbsoluteX", 4))
    @@ (74 :> OpCode("LSR", "Accumulator", 2))
    @@ (70 :> OpCode("LSR", "ZeroPage", 5))
    @@ (86 :> OpCode("LSR", "ZeroPageX", 6))
    @@ (78 :> OpCode("LSR", "Absolute", 6))
    @@ (94 :> OpCode("LSR", "AbsoluteX", 7))
    @@ (234 :> OpCode("NOP", "Implied", 2))
    @@ (9 :> OpCode("ORA", "Immediate", 2))
    @@ (5 :> OpCode("ORA", "ZeroPage", 3))
    @@ (21 :> OpCode("ORA", "ZeroPageX", 4))
    @@ (13 :> OpCode("ORA", "Absolute", 4))
    @@ (29 :> OpCode("ORA", "AbsoluteX", 4))
    @@ (25 :> OpCode("ORA", "AbsoluteY", 4))
    @@ (1 :> OpCode("ORA", "IndirectX", 6))
    @@ (17 :> OpCode("ORA", "IndirectY", 5))
    @@ (72 :> OpCode("PHA", "Implied", 3))
    @@ (8 :> OpCode("PHP", "Implied", 3))
    @@ (104 :> OpCode("PLA", "Implied", 4))
    @@ (40 :> OpCode("PLP", "Implied", 4))
    @@ (42 :> OpCode("ROL", "Accumulator", 2))
    @@ (38 :> OpCode("ROL", "ZeroPage", 5))
    @@ (54 :> OpCode("ROL", "ZeroPageX", 6))
    @@ (46 :> OpCode("ROL", "Absolute", 6))
    @@ (62 :> OpCode("ROL", "AbsoluteX", 7))
    @@ (106 :> OpCode("ROR", "Accumulator", 2))
    @@ (102 :> OpCode("ROR", "ZeroPage", 5))
    @@ (118 :> OpCode("ROR", "ZeroPageX", 6))
    @@ (110 :> OpCode("ROR", "Absolute", 6))
    @@ (126 :> OpCode("ROR", "AbsoluteX", 7))
    @@ (64 :> OpCode("RTI", "Implied", 6))
    @@ (96 :> OpCode("RTS", "Implied", 6))
    @@ (233 :> OpCode("SBC", "Immediate", 2))
    @@ (229 :> OpCode("SBC", "ZeroPage", 3))
    @@ (245 :> OpCode("SBC", "ZeroPageX", 4))
    @@ (237 :> OpCode("SBC", "Absolute", 4))
    @@ (253 :> OpCode("SBC", "AbsoluteX", 4))
    @@ (249 :> OpCode("SBC", "AbsoluteY", 4))
    @@ (225 :> OpCode("SBC", "IndirectX", 6))
    @@ (241 :> OpCode("SBC", "IndirectY", 5))
    @@ (56 :> OpCode("SEC", "Implied", 2))
    @@ (248 :> OpCode("SED", "Implied", 2))
    @@ (120 :> OpCode("SEI", "Implied", 2))
    @@ (133 :> OpCode("STA", "ZeroPage", 3))
    @@ (149 :> OpCode("STA", "ZeroPageX", 4))
    @@ (141 :> OpCode("STA", "Absolute", 4))
    @@ (157 :> OpCode("STA", "AbsoluteX", 5))
    @@ (153 :> OpCode("STA", "AbsoluteY", 5))
    @@ (129 :> OpCode("STA", "IndirectX", 6))
    @@ (145 :> OpCode("STA", "IndirectY", 6))
    @@ (134 :> OpCode("STX", "ZeroPage", 3))
    @@ (150 :> OpCode("STX", "ZeroPageY", 4))
    @@ (142 :> OpCode("STX", "Absolute", 4))
    @@ (132 :> OpCode("STY", "ZeroPage", 3))
    @@ (148 :> OpCode("STY", "ZeroPageX", 4))
    @@ (140 :> OpCode("STY", "Absolute", 4))
    @@ (170 :> OpCode("TAX", "Implied", 2))
    @@ (168 :> OpCode("TAY", "Implied", 2))
    @@ (186 :> OpCode("TSX", "Implied", 2))
    @@ (138 :> OpCode("TXA", "Implied", 2))
    @@ (154 :> OpCode("TXS", "Implied", 2))
    @@ (152 :> OpCode("TYA", "Implied", 2))
    @@ (11 :> OpCode("*AAC", "Immediate", 2))
    @@ (43 :> OpCode("*AAC", "Immediate", 2))
    @@ (135 :> OpCode("*AAX", "ZeroPage", 3))
    @@ (151 :> OpCode("*AAX", "ZeroPageY", 4))
    @@ (131 :> OpCode("*AAX", "IndirectX", 6))
    @@ (143 :> OpCode("*AAX", "Absolute", 4))
    @@ (107 :> OpCode("*ARR", "Immediate", 2))
    @@ (75 :> OpCode("*ASR", "Immediate", 2))
    @@ (171 :> OpCode("*ATX", "Immediate", 2))
    @@ (159 :> OpCode("*AXA", "AbsoluteY", 5))
    @@ (147 :> OpCode("*AXA", "IndirectY", 6))
    @@ (203 :> OpCode("*AXS", "Immediate", 2))
    @@ (199 :> OpCode("*DCP", "ZeroPage", 5))
    @@ (215 :> OpCode("*DCP", "ZeroPageX", 6))
    @@ (207 :> OpCode("*DCP", "Absolute", 6))
    @@ (223 :> OpCode("*DCP", "AbsoluteX", 7))
    @@ (219 :> OpCode("*DCP", "AbsoluteY", 7))
    @@ (195 :> OpCode("*DCP", "IndirectX", 8))
    @@ (211 :> OpCode("*DCP", "IndirectY", 8))
    @@ (4 :> OpCode("*DOP", "ZeroPage", 3))
    @@ (20 :> OpCode("*DOP", "ZeroPageX", 4))
    @@ (52 :> OpCode("*DOP", "ZeroPageX", 4))
    @@ (68 :> OpCode("*DOP", "ZeroPage", 3))
    @@ (84 :> OpCode("*DOP", "ZeroPageX", 4))
    @@ (100 :> OpCode("*DOP", "ZeroPage", 3))
    @@ (116 :> OpCode("*DOP", "ZeroPageX", 4))
    @@ (128 :> OpCode("*DOP", "Immediate", 2))
    @@ (130 :> OpCode("*DOP", "Immediate", 2))
    @@ (137 :> OpCode("*DOP", "Immediate", 2))
    @@ (194 :> OpCode("*DOP", "Immediate", 2))
    @@ (212 :> OpCode("*DOP", "ZeroPageX", 4))
    @@ (226 :> OpCode("*DOP", "Immediate", 2))
    @@ (244 :> OpCode("*DOP", "ZeroPageX", 4))
    @@ (231 :> OpCode("*ISC", "ZeroPage", 5))
    @@ (247 :> OpCode("*ISC", "ZeroPageX", 6))
    @@ (239 :> OpCode("*ISC", "Absolute", 6))
    @@ (255 :> OpCode("*ISC", "AbsoluteX", 7))
    @@ (251 :> OpCode("*ISC", "AbsoluteY", 7))
    @@ (227 :> OpCode("*ISC", "IndirectX", 8))
    @@ (243 :> OpCode("*ISC", "IndirectY", 8))
    @@ (2 :> OpCode("*KIL", "Implied", 0))
    @@ (18 :> OpCode("*KIL", "Implied", 0))
    @@ (34 :> OpCode("*KIL", "Implied", 0))
    @@ (50 :> OpCode("*KIL", "Implied", 0))
    @@ (66 :> OpCode("*KIL", "Implied", 0))
    @@ (82 :> OpCode("*KIL", "Implied", 0))
    @@ (98 :> OpCode("*KIL", "Implied", 0))
    @@ (114 :> OpCode("*KIL", "Implied", 0))
    @@ (146 :> OpCode("*KIL", "Implied", 0))
    @@ (178 :> OpCode("*KIL", "Implied", 0))
    @@ (210 :> OpCode("*KIL", "Implied", 0))
    @@ (242 :> OpCode("*KIL", "Implied", 0))
    @@ (187 :> OpCode("*LAR", "AbsoluteY", 4))
    @@ (167 :> OpCode("*LAX", "ZeroPage", 3))
    @@ (183 :> OpCode("*LAX", "ZeroPageY", 4))
    @@ (175 :> OpCode("*LAX", "Absolute", 4))
    @@ (191 :> OpCode("*LAX", "AbsoluteY", 4))
    @@ (163 :> OpCode("*LAX", "IndirectX", 6))
    @@ (179 :> OpCode("*LAX", "IndirectY", 5))
    @@ (26 :> OpCode("*NOP", "Implied", 2))
    @@ (58 :> OpCode("*NOP", "Implied", 2))
    @@ (90 :> OpCode("*NOP", "Implied", 2))
    @@ (122 :> OpCode("*NOP", "Implied", 2))
    @@ (218 :> OpCode("*NOP", "Implied", 2))
    @@ (250 :> OpCode("*NOP", "Implied", 2))
    @@ (39 :> OpCode("*RLA", "ZeroPage", 5))
    @@ (55 :> OpCode("*RLA", "ZeroPageX", 6))
    @@ (47 :> OpCode("*RLA", "Absolute", 6))
    @@ (63 :> OpCode("*RLA", "AbsoluteX", 7))
    @@ (59 :> OpCode("*RLA", "AbsoluteY", 7))
    @@ (35 :> OpCode("*RLA", "IndirectX", 8))
    @@ (51 :> OpCode("*RLA", "IndirectY", 8))
    @@ (103 :> OpCode("*RRA", "ZeroPage", 5))
    @@ (119 :> OpCode("*RRA", "ZeroPageX", 6))
    @@ (111 :> OpCode("*RRA", "Absolute", 6))
    @@ (127 :> OpCode("*RRA", "AbsoluteX", 7))
    @@ (123 :> OpCode("*RRA", "AbsoluteY", 7))
    @@ (99 :> OpCode("*RRA", "IndirectX", 8))
    @@ (115 :> OpCode("*RRA", "IndirectY", 8))
    @@ (235 :> OpCode("*SBC", "Immediate", 2))
    @@ (7 :> OpCode("*SLO", "ZeroPage", 5))
    @@ (23 :> OpCode("*SLO", "ZeroPageX", 6))
    @@ (15 :> OpCode("*SLO", "Absolute", 6))
    @@ (31 :> OpCode("*SLO", "AbsoluteX", 7))
    @@ (27 :> OpCode("*SLO", "AbsoluteY", 7))
    @@ (3 :> OpCode("*SLO", "IndirectX", 8))
    @@ (19 :> OpCode("*SLO", "IndirectY", 8))
    @@ (71 :> OpCode("*SRE", "ZeroPage", 5))
    @@ (87 :> OpCode("*SRE", "ZeroPageX", 6))
    @@ (79 :> OpCode("*SRE", "Absolute", 6))
    @@ (95 :> OpCode("*SRE", "AbsoluteX", 7))
    @@ (91 :> OpCode("*SRE", "AbsoluteY", 7))
    @@ (67 :> OpCode("*SRE", "IndirectX", 8))
    @@ (83 :> OpCode("*SRE", "IndirectY", 8))
    @@ (158 :> OpCode("*SXA", "AbsoluteY", 5))
    @@ (156 :> OpCode("*SYA", "AbsoluteX", 5))
    @@ (12 :> OpCode("*TOP", "Absolute", 4))
    @@ (28 :> OpCode("*TOP", "AbsoluteX", 4))
    @@ (60 :> OpCode("*TOP", "AbsoluteX", 4))
    @@ (92 :> OpCode("*TOP", "AbsoluteX", 4))
    @@ (124 :> OpCode("*TOP", "AbsoluteX", 4))
    @@ (220 :> OpCode("*TOP", "AbsoluteX", 4))
    @@ (252 :> OpCode("*TOP", "AbsoluteX", 4))
    @@ (139 :> OpCode("*XAA", "Immediate", 2))
    @@ (155 :> OpCode("*XAS", "AbsoluteY", 5))

\* What the lookup yields when the byte has no entry (the source panics).
NoOpCode == OpCode("", "", 0)

\* Faulty variant: the table is looked up without its KIL entries.
matchOpHexCodeWithoutKil(hexCode) ==
    IF hexCode \in DOMAIN hexToOpsCode /\ hexToOpsCode[hexCode].operation # "*KIL"
    THEN hexToOpsCode[hexCode]
    ELSE NoOpCode

matchOpHexCodeWithOpCode(hexCode) ==
    IF hexCode \in DOMAIN hexToOpsCode THEN hexToOpsCode[hexCode] ELSE NoOpCode

(* Load program and reset CPU *)

\* Faulty variant: a Reset that leaves the stack pointer and the flags alone.
ResetKeepingStack(m) ==
    [m EXCEPT !.cpu.registerA = 0, !.cpu.registerX = 0, !.cpu.registerY = 0,
              !.cpu.programCounter = 49152]

Reset(m) ==
    [m EXCEPT !.cpu.registerA = 0,
              !.cpu.registerX = 0,
              !.cpu.registerY = 0,
              !.cpu.statusFlags = 36,
              !.cpu.stackPointer = STACK_RESET,
              !.cpu.programCounter = 49152]

(* The trace line: only its memory reads can change the outcome of a step *)

\* The first panic among the results of a sequence of reads, or 0.
FirstPanic(reads) ==
    IF \E i \in DOMAIN reads : IsPanic(reads[i])
    THEN reads[CHOOSE i \in DOMAIN reads :
                   IsPanic(reads[i]) /\ \A j \in DOMAIN reads : IsPanic(reads[j]) => i <= j]
    ELSE 0

printCPUState(m, cpuStepInfos) ==
    LET mode == cpuStepInfos.opCode.addressingMode
        operation == cpuStepInfos.opCode.operation
        param1 == memoryRead(m, U16(m.cpu.programCounter + 1))
        param2 == memoryRead(m, U16(m.cpu.programCounter + 2))
        readsOperand ==
            \/ mode \in {"ZeroPage", "ZeroPageX", "ZeroPageY", "AbsoluteX", "AbsoluteY",
                         "IndirectX", "IndirectY"}
            \/ mode = "Absolute" /\ operation \notin {"JMP", "JSR"}
        first == FirstPanic(<<param1, param2>>
                            \o (IF readsOperand
                                THEN <<memoryRead(m, cpuStepInfos.operandAddress)>>
                                ELSE << >>))
    IN  IF IsPanic(first) THEN Raise(m, PanicKind(first)) ELSE m

\* The switch of CPU.Run on opCode.operation (BRK returns before it).
dispatch(m, cpuStepInfos) ==
    LET operation == cpuStepInfos.opCode.operation IN
    CASE operation = "ADC" -> adc(m, cpuStepInfos)
      [] operation = "AND" -> and(m, cpuStepInfos)
      [] operation = "ASL" -> asl(m, cpuStepInfos)
      [] operation = "BCC" -> bcc(m, cpuStepInfos)
      [] operation = "BCS" -> bcs(m, cpuStepInfos)
      [] operation = "BEQ" -> beq(m, cpuStepInfos)
      [] operation = "BIT" -> bit(m, cpuStepInfos)
      [] operation = "BMI" -> bmi(m, cpuStepInfos)
      [] operation = "BNE" -> bne(m, cpuStepInfos)
      [] operation = "BPL" -> bpl(m, cpuStepInfos)
      [] operation = "BVS" -> bvs(m, cpuStepInfos)
      [] operation = "BVC" -> bvc(m, cpuStepInfos)
      [] operation = "CLC" -> clc(m, cpuStepInfos)
      [] operation = "CLD" -> cld(m, cpuStepInfos)
      [] operation = "CLI" -> cli(m, cpuStepInfos)
      [] operation = "CLV" -> clv(m, cpuStepInfos)
      [] operation = "CMP" -> cmp(m, cpuStepInfos)
      [] operation = "CPX" -> cpx(m, cpuStepInfos)
      [] operation = "CPY" -> cpy(m, cpuStepInfos)
      [] operation = "DEC" -> dec(m, cpuStepInfos)
      [] operation = "DEX" -> dex(m, cpuStepInfos)
      [] operation = "DEY" -> dey(m, cpuStepInfos)
      [] operation = "EOR" -> eor(m, cpuStepInfos)
      [] operation = "INC" -> inc(m, cpuStepInfos)
      [] operation = "INX" -> inx(m, cpuStepInfos)
      [] operation = "INY" -> iny(m, cpuStepInfos)
      [] operation = "JMP" -> jmp(m, cpuStepInfos)
      [] operation = "JSR" -> jsr(m, cpuStepInfos)
      [] operation = "LDA" -> lda(m, cpuStepInfos)
      [] operation = "LDX" -> ldx(m, cpuStepInfos)
      [] operation = "LDY" -> ldy(m, cpuStepInfos)
      [] operation = "LSR" -> lsr(m, cpuStepInfos)
      [] operation = "NOP" -> nop(m, cpuStepInfos)
      [] operation = "ORA" -> ora(m, cpuStepInfos)
      [] operation = "PHA" -> pha(m, cpuStepInfos)
      [] operation = "PHP" -> php(m, cpuStepInfos)
      [] operation = "PLA" -> pla(m, cpuStepInfos)
      [] operation = "PLP" -> plp(m, cpuStepInfos)
      [] operation = "ROL" -> rol(m, cpuStepInfos)
      [] operation = "ROR" -> ror(m, cpuStepInfos)
      [] operation = "RTI" -> rti(m, cpuStepInfos)
      [] operation = "RTS" -> rts(m, cpuStepInfos)
      [] operation = "SBC" -> sbc(m, cpuStepInfos)
      [] operation = "SEC" -> sec(m, cpuStepInfos)
      [] operation = "SED" -> sed(m, cpuStepInfos)
      [] operation = "SEI" -> sei(m, cpuStepInfos)
      [] operation = "STA" -> sta(m, cpuStepInfos)
      [] operation = "STX" -> stx(m, cpuStepInfos)
      [] operation = "STY" -> sty(m, cpuStepInfos)
      [] operation = "TAX" -> tax(m, cpuStepInfos)
      [] operation = "TAY" -> tay(m, cpuStepInfos)
      [] operation = "TSX" -> tsx(m, cpuStepInfos)
      [] operation = "TXA" -> txa(m, cpuStepInfos)
      [] operation = "TXS" -> txs(m, cpuStepInfos)
      [] operation = "TYA" -> tya(m, cpuStepInfos)
      [] operation = "*AAC" -> aac(m, cpuStepInfos)
      [] operation = "*AAX" -> aax(m, cpuStepInfos)
      [] operation = "*ARR" -> arr(m, cpuStepInfos)
      [] operation = "*ASR" -> asr(m, cpuStepInfos)
      [] operation = "*ATX" -> atx(m, cpuStepInfos)
      [] operation = "*AXA" -> axa(m, cpuStepInfos)
      [] operation = "*AXS" -> axs(m, cpuStepInfos)
      [] operation = "*DCP" -> dcp(m, cpuStepInfos)
      [] operation = "*DOP" -> dop(m, cpuStepInfos)
      [] operation = "*ISC" -> isc(m, cpuStepInfos)
      [] operation = "*KIL" -> kil(m, cpuStepInfos)
      [] operation = "*LAR" -> lar(m, cpuStepInfos)
      [] operation = "*LAX" -> lax(m, cpuStepInfos)
      [] operation = "*NOP" -> nop(m, cpuStepInfos)
      [] operation = "*RLA" -> rla(m, cpuStepInfos)
      [] operation = "*RRA" -> rra(m, cpuStepInfos)
      [] operation = "*SBC" -> sbc(m, cpuStepInfos)
      [] operation = "*SLO" -> slo(m, cpuStepInfos)
      [] operation = "*SRE" -> sre(m, cpuStepInfos)
      [] operation = "*SXA" -> sxa(m, cpuStepInfos)
      [] operation = "*SYA" -> sya(m, cpuStepInfos)
      [] operation = "*TOP" -> top(m, cpuStepInfos)
      [] operation = "*XAA" -> xaa(m, cpuStepInfos)
      [] operation = "*XAS" -> xas(m, cpuStepInfos)
      [] OTHER -> Raise(m, "UnsupportedOperation")

NoStepInfos == [opHexCode |-> -1, opCode |-> NoOpCode, operandAddress |-> -1]

\* The result of an iteration of the loop of CPU.Run: the machine after it,
\* whether the loop returned (BRK), and the step's StepInfos as far as built.
Iteration(m, returned, stepInfos) ==
    [m |-> m, returned |-> returned, stepInfos |-> stepInfos]

\* The end of the iteration, after the operation left the machine as done: the
\* program counter advances by the size of the instruction when the operation
\* left it where it was.
RunAdvance(m, stepInfos, done) ==
    IF Panicked(done) THEN Iteration(done, FALSE, stepInfos)
    ELSE IF m.cpu.programCounter = done.cpu.programCounter
    THEN Iteration([done EXCEPT !.cpu.programCounter =
                        U16(@ + getNumberOfBytesReadForOperation(
                                    stepInfos.opCode.addressingMode))],
                   FALSE, stepInfos)
    ELSE Iteration(done, FALSE, stepInfos)

\* The iteration from the trace line on: traced is the machine after
\* printCPUState; BRK returns from Run, any other operation is dispatched.
RunExecute(m, stepInfos, traced) ==
    IF Panicked(traced) THEN Iteration(traced, FALSE, stepInfos)
    ELSE IF stepInfos.opCode.operation = "BRK" THEN Iteration(m, TRUE, stepInfos)
    ELSE RunAdvance(m, stepInfos, dispatch(m, stepInfos))

\* The iteration once the step's StepInfos are built.
RunTrace(m, stepInfos) ==
    IF IsPanic(stepInfos.operandAddress)
    THEN Iteration(Raise(m, PanicKind(stepInfos.operandAddress)), FALSE, stepInfos)
    ELSE RunExecute(m, stepInfos, printCPUState(m, stepInfos))

\* The iteration once the opcode is matched: the operand address is resolved.
RunAddress(m, opHexCode, opCode) ==
    IF opCode = NoOpCode
    THEN Iteration(Raise(m, "UnsupportedHexCode"), FALSE,
                   [NoStepInfos EXCEPT !.opHexCode = opHexCode])
    ELSE RunTrace(m, [opHexCode |-> opHexCode, opCode |-> opCode,
                      operandAddress |->
                          getOperandAddress(m, opCode.addressingMode,
                                            m.cpu.programCounter)])

\* The iteration once the opcode byte is fetched.
RunDecode(m, opHexCode) ==
    IF IsPanic(opHexCode)
    THEN Iteration(Raise(m, PanicKind(opHexCode)), FALSE, NoStepInfos)
    ELSE RunAddress(m, opHexCode, matchOpHexCodeWithOpCode(opHexCode))

\* One iteration of the loop of CPU.Run.
RunIteration(m) == RunDecode(m, memoryRead(m, m.cpu.programCounter))

---------------------------------------------------------------------------
(* Bounds *)

\* Iterations of the loop of CPU.Run that are explored after Run is entered.
MaxSteps == 9

\* Calls of the 16-bit bus accessors that are explored from each loaded bus.
MaxBusOps == 3

\* Stack helper calls that are explored from each initial stack.
MaxStackOps == 3

---------------------------------------------------------------------------
(* Building memory images for the initial states *)

\* A cartridge of prgRomLen zero bytes.
BlankRom(prgRomLen) == [prgRomLen |-> prgRomLen, prgRom |-> EmptyArray]

\* The bus b with byte v placed where a read of address finds it: in RAM, in the
\* PPU registers, or in the PRG-ROM of the cartridge.
Poke(b, address, v) ==
    IF address <= PPU_REGISTERS_MIRRORS_END
    THEN (MemoryWrite(b, address, v)).bus
    ELSE IF address >= PRG_ROM_START
    THEN [b EXCEPT !.rom.prgRom =
            ArraySet(@, IF b.rom.prgRomLen = 16384 THEN address % 16384
                        ELSE address - 32768, v)]
    ELSE b

\* The bus b with the bytes of seq placed from address on (wrapping at 0xFFFF).
RECURSIVE PokeSeq(_, _, _)
PokeSeq(b, address, seq) ==
    IF seq = << >> THEN b
    ELSE PokeSeq(Poke(b, address, Head(seq)), U16(address + 1), Tail(seq))

NoOp == [kind |-> "none"]

NoJsr == [at |-> -1, stackPointer |-> -1, target |-> -1]

---------------------------------------------------------------------------
(* Actions *)

\* A client of the bus calls Bus.MemoryRead.
BusRead(address) ==
    /\ run \notin {"running", "panic"}
    /\ LET r == MemoryRead(bus, address)
       IN  /\ lastOp' = [kind |-> "MemoryRead", address |-> address, result |-> r]
           /\ panic' = PanicKind(r)
           /\ run' = IF IsPanic(r) THEN "panic" ELSE run
    /\ UNCHANGED <<cpu, bus, steps, lastJsr, consoleBus>>

\* A client of the bus calls Bus.MemoryWrite.
BusWrite(address, data) ==
    /\ run \notin {"running", "panic"}
    /\ LET w == MemoryWrite(bus, address, data)
       IN  /\ bus' = w.bus
           /\ panic' = w.panic
           /\ run' = IF w.panic # "none" THEN "panic" ELSE run
    /\ lastOp' = [kind |-> "MemoryWrite", address |-> address, data |-> data]
    /\ UNCHANGED <<cpu, steps, lastJsr, consoleBus>>

\* A client of the bus calls Bus.MemoryReadU16.
BusReadU16(address) ==
    /\ run \notin {"running", "panic"}
    /\ steps < MaxBusOps
    /\ steps' = steps + 1
    /\ LET r == MemoryReadU16(bus, address)
       IN  /\ lastOp' = [kind |-> "MemoryReadU16", address |-> address, result |-> r]
           /\ panic' = PanicKind(r)
           /\ run' = IF IsPanic(r) THEN "panic" ELSE run
    /\ UNCHANGED <<cpu, bus, lastJsr, consoleBus>>

\* A client of the bus calls Bus.MemoryWriteU16.
BusWriteU16(address, data) ==
    /\ run \notin {"running", "panic"}
    /\ steps < MaxBusOps
    /\ steps' = steps + 1
    /\ LET w == MemoryWriteU16(bus, address, data)
       IN  /\ bus' = w.bus
           /\ panic' = w.panic
           /\ run' = IF w.panic # "none" THEN "panic" ELSE run
    /\ lastOp' = [kind |-> "MemoryWriteU16", address |-> address, data |-> data]
    /\ UNCHANGED <<cpu, lastJsr, consoleBus>>

\* Bus.LoadRom(rom), called on the Bus that the CPU holds.
CallLoadRom(rom) ==
    /\ run \in {"constructed", "returned"}
    /\ bus' = LoadRom(bus, rom)
    /\ run' = "loaded"
    /\ lastOp' = [kind |-> "LoadRom"]
    /\ UNCHANGED <<cpu, panic, steps, lastJsr, consoleBus>>

\* NesConsole.RunRom, first call: console.bus.LoadRom(rom).  The receiver is the
\* bus field of the console, a Bus value of its own: NewConsole copied the
\* Bus it had built the CPU on into the struct.
ConsoleLoadRom(rom) ==
    /\ run \in {"constructed", "returned"}
    /\ consoleBus' = LoadRom(consoleBus, rom)
    /\ run' = "loaded"
    /\ lastOp' = [kind |-> "LoadRom"]
    /\ UNCHANGED <<cpu, bus, panic, steps, lastJsr>>

\* main: bus.ParseRawRom(rawRom) on the bytes that os.ReadFile returned; the
\* Rom parsed is then loaded.
CallParseRawRom ==
    /\ run = "constructed"
    /\ lastOp.kind = "ReadFile"
    /\ LET result == ParseRawRom(lastOp.raw)
       IN  /\ lastOp' = [kind |-> "ParseRawRom", raw |-> lastOp.raw, result |-> result]
           /\ panic' = IF result.kind = "panic" THEN result.panic
                       ELSE IF result.kind = "error" THEN "errorParse"
                       ELSE "none"
           /\ run' = IF result.kind = "rom" THEN "loaded" ELSE "panic"
           /\ bus' = IF result.kind = "rom" THEN LoadRom(bus, result.rom) ELSE bus
    /\ UNCHANGED <<cpu, steps, lastJsr, consoleBus>>

\* CPU.Reset (the second call of NesConsole.RunRom).
CallReset ==
    /\ run \in {"loaded", "ready", "returned"}
    /\ LET m == Reset(Machine(cpu, bus))
       IN  /\ cpu' = m.cpu
           /\ bus' = m.bus
    /\ run' = "ready"
    /\ lastOp' = [kind |-> "Reset", before |-> cpu]
    /\ UNCHANGED <<panic, steps, lastJsr, consoleBus>>

\* CPU.Run is entered (the third call of NesConsole.RunRom).
CallRun ==
    /\ run = "ready"
    /\ run' = "running"
    /\ steps' = 0
    /\ lastOp' = [kind |-> "Run"]
    /\ UNCHANGED <<cpu, bus, panic, lastJsr, consoleBus>>

\* The state after an iteration of the loop of CPU.Run that ended as it.
Stepped(it) ==
    /\ cpu' = it.m.cpu
    /\ bus' = it.m.bus
    /\ panic' = it.m.panic
    /\ run' = IF Panicked(it.m) THEN "panic"
              ELSE IF it.returned THEN "returned"
              ELSE "running"
    /\ lastOp' = [kind |-> "Step", before |-> cpu, stepInfos |-> it.stepInfos]
    /\ lastJsr' = IF it.stepInfos.opCode.operation = "JSR" /\ ~Panicked(it.m)
                  THEN [at |-> cpu.programCounter,
                        stackPointer |-> cpu.stackPointer,
                        target |-> it.stepInfos.operandAddress]
                  ELSE lastJsr
    /\ UNCHANGED consoleBus

\* One iteration of the loop of CPU.Run.
Step ==
    /\ run = "running"
    /\ steps < MaxSteps
    /\ Stepped(RunIteration(Machine(cpu, bus)))
    /\ steps' = steps + 1

---------------------------------------------------------------------------
(* SpecBus: a client drives the bus of a loaded cartridge *)

\* Cartridges: 16 KiB and 32 KiB, with bytes that tell the offsets apart.
Rom16 ==
    [prgRomLen |-> 16384,
     prgRom |-> (0 :> 170) @@ (1 :> 1) @@ (16380 :> 52) @@ (16381 :> 18) @@ (16383 :> 63)]

Rom32 ==
    [prgRomLen |-> 32768,
     prgRom |-> (0 :> 170) @@ (16383 :> 63) @@ (16384 :> 64)
                @@ (32764 :> 120) @@ (32765 :> 86) @@ (32767 :> 127)]

BusRoms == {Rom16, Rom32}

BusAddresses ==
    {0, 2047, 2048, 8191,             \* RAM and its mirrors
     8192, 8199, 8200, 16383,         \* PPU registers and their mirrors
     16384, 20480, 32767,             \* unmapped
     32768, 49151, 49152, 65532, 65533, 65535}   \* PRG-ROM window

BusData == {0, 165, 255}

BusInit ==
    /\ cpu = NewCPU
    /\ \E rom \in BusRoms : bus = LoadRom(NewBus, rom)
    /\ run = "loaded"
    /\ panic = "none"
    /\ steps = 0
    /\ lastOp = NoOp
    /\ lastJsr = NoJsr
    /\ consoleBus = NewBus

BusNext ==
    \E address \in BusAddresses :
        \/ BusRead(address)
        \/ \E data \in BusData : BusWrite(address, data)

SpecBus == BusInit /\ [][BusNext]_vars

---------------------------------------------------------------------------
(* SpecWords: a client calls the 16-bit accessors of the bus *)

WordAddresses ==
    {0, 255, 2047, 8191,              \* RAM: a page end, the end, the last mirror
     8192, 8199, 16382, 16383,        \* PPU registers; 0x3FFF is next to 0x4000
     32767, 32768, 49151, 65535}      \* unmapped, PRG-ROM, the last address

WordData == {4660, 255, 42496}

WordsNext ==
    \E address \in WordAddresses :
        \/ BusReadU16(address)
        \/ \E data \in WordData : BusWriteU16(address, data)

SpecWords == BusInit /\ [][WordsNext]_vars

---------------------------------------------------------------------------
(* Spec: the machine.  NewBus and NewCPU, then LoadRom on the Bus that the  *)
(* CPU holds, Reset and Run call by call, with a client that may read and  *)
(* write the bus between the calls.                                        *)

\* The cartridge of prgRomLen bytes with program at the entry point 0xC000 and
\* vector at 0xFFFC/0xFFFD.
Cartridge(prgRomLen, program, vector) ==
    (PokeSeq(PokeSeq(LoadRom(NewBus, BlankRom(prgRomLen)), 49152, program),
             65532, LittleEndianPutUint16(vector))).rom

Programs ==
    {<<169, 5, 170, 232, 0>>,              \* LDA #$05; TAX; INX; BRK
     <<169, 255, 170, 232, 0>>,            \* LDA #$FF; TAX; INX; BRK
     <<169, 80, 105, 80, 0>>,              \* LDA #$50; ADC #$50; BRK
     <<32, 5, 192, 0, 0, 232, 96>>,        \* JSR $C005; BRK; -; INX; RTS
     <<162, 0, 154, 8, 104, 168, 56, 248, 0>>,  \* LDX #0; TXS; PHP; PLA; TAY; SEC; SED; BRK
     <<169, 127, 141, 0, 2, 141, 0, 128>>, \* LDA #$7F; STA $0200; STA $8000
     <<76, 0, 192>>,                       \* JMP $C000
     <<2>>}                                \* KIL

Vectors == {49152, 32768}

Roms ==
    {Cartridge(prgRomLen, program, vector) :
        prgRomLen \in {16384, 32768}, program \in Programs, vector \in Vectors}

ClientAddresses == {0, 8192, 16384, 32768, 65532}

ClientData == {0, 165}

Init ==
    /\ cpu = NewCPU
    /\ bus = NewBus
    /\ run = "constructed"
    /\ panic = "none"
    /\ steps = 0
    /\ lastOp = NoOp
    /\ lastJsr = NoJsr
    /\ consoleBus = NewBus

Next ==
    \/ \E rom \in Roms : CallLoadRom(rom)
    \/ CallReset
    \/ CallRun
    \/ Step
    \/ \E address \in ClientAddresses : BusRead(address)
    \/ \E address \in ClientAddresses, data \in ClientData : BusWrite(address, data)

Spec == Init /\ [][Next]_vars

---------------------------------------------------------------------------
(* SpecConsole: the console.  NewConsole, then RunRom(rom) call by call:    *)
(* LoadRom on the bus field of the console, Reset and Run on its cpu field. *)

ConsoleNext ==
    \/ \E rom \in Roms : ConsoleLoadRom(rom)
    \/ CallReset
    \/ CallRun
    \/ Step

SpecConsole == Init /\ [][ConsoleNext]_vars

---------------------------------------------------------------------------
(* Scenario specifications: CPU.Run is entered with the program counter on *)
(* an instruction drawn from a bounded family, on a 32 KiB cartridge.      *)

\* The state in which Run is entered with the registers c and the bus b.
Running(c, b) ==
    /\ cpu = c
    /\ bus = b
    /\ run = "running"
    /\ panic = "none"
    /\ steps = 0
    /\ lastOp = NoOp
    /\ lastJsr = NoJsr
    /\ consoleBus = NewBus

Registers(a, x, y, p, sp, pc) ==
    [registerA |-> a, registerX |-> x, registerY |-> y, statusFlags |-> p,
     stackPointer |-> sp, programCounter |-> pc]

BlankBus == LoadRom(NewBus, BlankRom(32768))

(* SpecStep: any opcode byte, followed by operand bytes *)

StepPCs == {512, 49152, 65535}

StepOperandsLow == {0, 16, 255}

StepOperandsHigh == {0, 2, 64, 128}

StepRegisters ==
    {Registers(0, 0, 0, 36, 253, 0),
     Registers(129, 1, 255, 229, 0, 0),
     Registers(127, 255, 2, 39, 255, 0)}

StepInit ==
    \E pc \in StepPCs, opHexCode \in 0..255, low \in StepOperandsLow,
       high \in StepOperandsHigh, c \in StepRegisters :
        Running([c EXCEPT !.programCounter = pc],
                PokeSeq(BlankBus, pc, <<opHexCode, low, high>>))

SpecStep == StepInit /\ [][Step]_vars

(* SpecBranch: a branch instruction with any offset byte *)

BranchOpHexCodes == {16, 48, 80, 112, 144, 176, 208, 240}

BranchPCs == {0, 512, 65534}

BranchStatusFlags == {36, 37, 38, 100, 164, 231}

BranchInit ==
    \E pc \in BranchPCs, opHexCode \in BranchOpHexCodes, offset \in 0..255,
       p \in BranchStatusFlags :
        Running(Registers(17, 34, 51, p, 253, pc),
                PokeSeq(BlankBus, pc, <<opHexCode, offset>>))

SpecBranch == BranchInit /\ [][Step]_vars

(* SpecJump: JMP, JMP (indirect) and JSR to a target that holds a short    *)
(* subroutine ending in RTS                                                *)

JumpPCs == {512, 49152, 65533}

JumpTargets(pc) == {pc, U16(pc + 3), 5, 768, 16384, 49443}

JumpPointers == {16, 1023}

JumpStackPointers == {253, 1, 0}

Subroutines == {<<96>>, <<232, 96>>}      \* RTS;  INX; RTS

\* The bus with the word v stored little-endian where an Indirect operand at
\* pointer reads it (the high byte from the start of the page when the pointer
\* is the last byte of its page).
PokePointer(b, pointer, v) ==
    Poke(Poke(b, pointer, v % 256),
         IF pointer % 256 = 255 THEN pointer - 255 ELSE pointer + 1, v \div 256)

JumpInit ==
    \E pc \in JumpPCs, sp \in JumpStackPointers, body \in Subroutines :
        \E target \in JumpTargets(pc) :
            \/ \E opHexCode \in {76, 32} :
                Running(Registers(0, 0, 0, 36, sp, pc),
                        PokeSeq(PokeSeq(BlankBus, target, body), pc,
                                <<opHexCode>> \o LittleEndianPutUint16(target)))
            \/ \E pointer \in JumpPointers :
                Running(Registers(0, 0, 0, 36, sp, pc),
                        PokeSeq(PokePointer(PokeSeq(BlankBus, target, body),
                                            pointer, target),
                                pc, <<108>> \o LittleEndianPutUint16(pointer)))

SpecJump == JumpInit /\ [][Step]_vars

---------------------------------------------------------------------------
(* SpecStack: the stack helpers of the CPU, called one after another       *)

StackPointers == {0, 1, 2, 128, 253, 254, 255}

StackBytes == {0, 1, 165, 255}

StackWords == {0, 255, 256, 4660, 65535}

\* A memory with a byte on each side of the stack page and at both its ends.
StackBus == PokeSeq(PokeSeq(BlankBus, 255, <<17, 34>>), 511, <<51, 68>>)

StackInit ==
    /\ \E sp \in StackPointers : cpu = Registers(0, 0, 0, 36, sp, 0)
    /\ bus = StackBus
    /\ run = "ready"
    /\ panic = "none"
    /\ steps = 0
    /\ lastOp = NoOp
    /\ lastJsr = NoJsr
    /\ consoleBus = NewBus

\* The state after a stack helper left the machine as m; lastOp records the
\* call, the value pushed or pulled, and the registers and memory before it.
StackCalled(kind, value, m) ==
    /\ steps < MaxStackOps
    /\ cpu' = m.cpu
    /\ bus' = m.bus
    /\ panic' = m.panic
    /\ steps' = steps + 1
    /\ lastOp' = [kind |-> kind, value |-> value, before |-> cpu,
                  memory |-> bus.memory]
    /\ UNCHANGED <<run, lastJsr, consoleBus>>

CallPushStack(value) ==
    StackCalled("pushStack", value, pushStack(Machine(cpu, bus), value))

CallPullStack ==
    StackCalled("pullStack", (pullStack(Machine(cpu, bus))).value,
                (pullStack(Machine(cpu, bus))).m)

CallPushStackU16(value) ==
    StackCalled("pushStackU16", value, pushStackU16(Machine(cpu, bus), value))

CallPullStackU16 ==
    StackCalled("pullStackU16", (pullStackU16(Machine(cpu, bus))).value,
                (pullStackU16(Machine(cpu, bus))).m)

StackNext ==
    \/ \E value \in StackBytes : CallPushStack(value)
    \/ CallPullStack
    \/ \E value \in StackWords : CallPushStackU16(value)
    \/ CallPullStackU16

SpecStack == StackInit /\ [][StackNext]_vars

---------------------------------------------------------------------------
(* SpecOpcodes: the runs of SpecStep, and runs entered on a stack          *)
(* instruction with any stack pointer and a stack page full of bytes       *)

StackOpHexCodes == {72, 8, 104, 40, 32, 96, 64}   \* PHA PHP PLA PLP JSR RTS RTI

StackOpPCs == {512, 49152}

\* The byte that the stack slot 0x0100 + i holds initially: every byte value
\* occurs in the page.
StackFill(i) == (7 * i + 3) % 256

FilledStackBus ==
    [BlankBus EXCEPT !.memory =
        [j \in {k \in 256..511 : StackFill(k - 256) # 0} |-> StackFill(j - 256)]]

StackOpsInit ==
    \E pc \in StackOpPCs, opHexCode \in StackOpHexCodes, sp \in 0..255 :
        Running(Registers(90, 1, 2, 231, sp, pc),
                PokeSeq(FilledStackBus, pc, <<opHexCode, 0, 3>>))

OpcodesInit == StepInit \/ StackOpsInit

SpecOpcodes == OpcodesInit /\ [][Step]_vars

---------------------------------------------------------------------------
(* SpecRun: Run after LoadRom on the Bus of the CPU and Reset, for a family *)
(* of cartridges whose program sits at 0xC000.  Run is a plain loop:       *)
(* nothing but a return or a panic stops it, so its iterations are taken   *)
(* fairly.                                                                 *)

\* LDA #v; TAX; INX; BRK
LoadTransferIncrement(v) == <<169, v, 170, 232, 0>>

RunPrograms ==
    {LoadTransferIncrement(v) : v \in 0..255}
    \cup Programs
    \cup {<<234, 234, 0>>,                \* NOP; NOP; BRK
          <<76, 255, 63>>,                \* JMP $3FFF (a BRK in the PPU mirrors)
          <<76, 0, 3>>,                   \* JMP $0300 (a BRK in RAM)
          <<162, 0, 232, 208, 253, 0>>}   \* LDX #0; INX; BNE -3; BRK

RunInit ==
    /\ \E program \in RunPrograms :
          /\ bus = LoadRom(NewBus, Cartridge(16384, program, 49152))
          /\ cpu = (Reset(Machine(NewCPU, bus))).cpu
    /\ run = "ready"
    /\ panic = "none"
    /\ steps = 0
    /\ lastOp = NoOp
    /\ lastJsr = NoJsr
    /\ consoleBus = NewBus

RunNext == CallRun \/ Step

\* What every iteration of Run does to the count of iterations, and nothing
\* else does: the fairness of the loop is stated on it.
Iterates == run = "running" /\ steps < MaxSteps /\ steps' = steps + 1

SpecRun == RunInit /\ [][RunNext]_vars /\ WF_vars(CallRun) /\ WF_steps(Iterates)

---------------------------------------------------------------------------
(* SpecAlu: Run entered at 0x0200 on an arithmetic, compare or BIT         *)
(* instruction, for every accumulator and a family of operands and flags   *)

\* Operand bytes: the ends, the sign boundary, and the complement of each.
AluBytes ==
    {0, 1, 15, 63, 64, 80, 95, 127, 128, 160, 175, 191, 192, 240, 254, 255}

\* Status registers on entry: carry clear and set, alone and with N, V, D, Z.
AluStatusFlags == {36, 37, 238, 239}

\* The programs for the operand byte m and the status register p on entry;
\* the byte m is also at 0x0010 and at 0x0310.
AluPrograms(m, p) ==
    {<<105, m, IF p % 2 = 1 THEN 24 ELSE 56, 233, m>>,  \* ADC #m; CLC or SEC; SBC #m
     <<101, 16>>,          \* ADC $10
     <<233, m>>,           \* SBC #m
     <<235, m>>,           \* *SBC #m
     <<237, 16, 3>>,       \* SBC $0310
     <<201, m>>,           \* CMP #m
     <<224, m>>,           \* CPX #m
     <<192, m>>,           \* CPY #m
     <<36, 16>>,           \* BIT $10
     <<44, 16, 3>>}        \* BIT $0310

AluInit ==
    \E a \in 0..255, m \in AluBytes, p \in AluStatusFlags :
        \E program \in AluPrograms(m, p) :
            Running(Registers(a, (a + 85) % 256, (a + 170) % 256, p, 253, 512),
                    PokeSeq(Poke(Poke(BlankBus, 16, m), 784, m), 512, program))

SpecAlu == AluInit /\ [][Step]_vars

---------------------------------------------------------------------------
(* SpecStatus: Run entered at 0x0200 on PHP; PLP, on PLP or on RTI, with    *)
(* any running status, any stack pointer and any pulled status byte        *)

\* The status registers that the CPU can hold: bit 5 set, bit 4 clear.
RunningStatusFlags == {p \in 0..255 : (p \div 16) % 4 = 2}

StatusStackPointers == {252, 253, 254, 255, 0}

\* The addresses that RTI finds on the stack: its own, the next ones, and
\* others in RAM, in the PPU registers and in the cartridge.
ReturnAddresses == {0, 255, 512, 513, 514, 767, 8192, 49152, 65535}

\* The bus with the bytes of pulled in the stack slots above sp.
PokeStack(b, sp, pulled) ==
    [b EXCEPT !.memory =
        [j \in {256 + ((sp + i) % 256) : i \in {k \in 1..Len(pulled) : pulled[k] # 0}}
            |-> pulled[CHOOSE i \in 1..Len(pulled) : j = 256 + ((sp + i) % 256)]]]

StatusInit ==
    \/ \E p \in RunningStatusFlags, sp \in 0..255 :
            Running(Registers(90, 1, 2, p, sp, 512),
                    PokeSeq(FilledStackBus, 512, <<8, 40>>))
    \/ \E sp \in StatusStackPointers, v \in 0..255 :
            \/ Running(Registers(90, 1, 2, 36, sp, 512),
                       PokeSeq(PokeStack(BlankBus, sp, <<v>>), 512, <<40>>))
            \/ \E address \in ReturnAddresses :
                Running(Registers(90, 1, 2, 36, sp, 512),
                        PokeSeq(PokeStack(BlankBus, sp,
                                          <<v>> \o LittleEndianPutUint16(address)),
                                512, <<64>>))

SpecStatus == StatusInit /\ [][Step]_vars

---------------------------------------------------------------------------
(* SpecModes: Run entered at 0x0600 on a load or a store in an indexed or   *)
(* indirect mode, or on JMP (indirect), over a memory of telling bytes      *)

\* The byte at the RAM address j, 0x0000-0x03FF: it differs from the bytes
\* next to it, one page above and one page below, and any two of them make
\* the address of a RAM cell.
ModesFill(j) == (j + 3 * (j \div 256)) % 8

\* The filled RAM, with bytes at the ends of the page 0x0700, at the PPU
\* registers 0 and 7 and at the ends of the last page of the cartridge.
ModesBus ==
    LET filled == [BlankBus EXCEPT !.memory =
                      [j \in {k \in 0..1023 : ModesFill(k) # 0} |-> ModesFill(j)]]
    IN  Poke(Poke(Poke(Poke(Poke(Poke(filled, 1792, 6), 2047, 5),
                       8192, 2), 8199, 4), 65280, 3), 65535, 7)

\* The index X; the index Y is its complement.
ModesIndexes == {0, 1, 2, 127, 128, 255}

\* LDA and STA (LDX and STX for ZeroPageY) in the modes that take a byte.
ModesByteOpHexCodes == {181, 149, 182, 150, 161, 129, 177, 145}

\* LDA and STA in AbsoluteX and AbsoluteY.
ModesWordOpHexCodes == {189, 157, 185, 153}

ModesWords == {0, 255, 496, 2047, 8191, 16383, 32767, 65408, 65535}

\* The pointers of JMP (indirect): inside a page and on the last byte of one.
ModesPointers == {640, 255, 767, 2047, 12543, 16383, 65535}

ModesInit ==
    \E x \in ModesIndexes :
        \/ \E opHexCode \in ModesByteOpHexCodes, base \in 0..255 :
              Running(Registers(90, x, 255 - x, 36, 253, 1536),
                      PokeSeq(ModesBus, 1536, <<opHexCode, base>>))
        \/ \E opHexCode \in ModesWordOpHexCodes, word \in ModesWords :
              Running(Registers(90, x, 255 - x, 36, 253, 1536),
                      PokeSeq(ModesBus, 1536,
                              <<opHexCode>> \o LittleEndianPutUint16(word)))
        \/ \E pointer \in ModesPointers :
              Running(Registers(90, x, 255 - x, 36, 253, 1536),
                      PokeSeq(ModesBus, 1536,
                              <<108>> \o LittleEndianPutUint16(pointer)))

SpecModes == ModesInit /\ [][Step]_vars

---------------------------------------------------------------------------
(* SpecShifts: Run entered at 0x0200 on a shift or a rotate of the          *)
(* accumulator or of a memory byte, or on ROL followed by ROR, for every    *)
(* byte and carry                                                          *)

\* The programs; the memory operands are at 0x0010 and at 0x0310.
ShiftPrograms ==
    {<<10>>, <<6, 16>>, <<14, 16, 3>>,          \* ASL A; ASL $10; ASL $0310
     <<74>>, <<70, 16>>, <<78, 16, 3>>,         \* LSR A; LSR $10; LSR $0310
     <<106>>, <<102, 16>>, <<110, 16, 3>>,      \* ROR A; ROR $10; ROR $0310
     <<42, 106>>,                               \* ROL A; ROR A
     <<38, 16, 102, 16>>,                       \* ROL $10; ROR $10
     <<46, 16, 3, 110, 16, 3>>}                 \* ROL $0310; ROR $0310

\* The byte v is in A when the program works on the accumulator; otherwise it
\* is at 0x0010 and at 0x0310, and A holds v + 85.
ShiftsInit ==
    \E v \in 0..255, p \in AluStatusFlags, program \in ShiftPrograms :
        IF hexToOpsCode[program[1]].addressingMode = "Accumulator"
        THEN Running(Registers(v, 1, 2, p, 253, 512),
                     PokeSeq(Poke(Poke(BlankBus, 16, 119), 784, 119), 512, program))
        ELSE Running(Registers((v + 85) % 256, 1, 2, p, 253, 512),
                     PokeSeq(Poke(Poke(BlankBus, 16, v), 784, v), 512, program))

SpecShifts == ShiftsInit /\ [][Step]_vars

---------------------------------------------------------------------------
(* SpecData: Run entered at 0x0200 on a load, a transfer, a pull, an        *)
(* increment or decrement, a logic operation, a store or a flag            *)
(* instruction, for every byte moved and a family of status registers      *)

\* Status registers on entry: no flag, all of them, C I V, and Z D N.
DataStatusFlags == {32, 239, 101, 170}

\* Accumulators that the logic operations combine with every operand byte.
DataAccumulators == {0, 85, 129, 170, 255}

\* Loads, increments and decrements of memory: the operand byte is in the
\* program, at 0x0010 and at 0x0310.
DataLoadPrograms(v) ==
    {<<169, v>>, <<165, 16>>, <<173, 16, 3>>,      \* LDA #v; LDA $10; LDA $0310
     <<162, v>>, <<166, 16>>, <<174, 16, 3>>,      \* LDX #v; LDX $10; LDX $0310
     <<160, v>>, <<164, 16>>, <<172, 16, 3>>,      \* LDY #v; LDY $10; LDY $0310
     <<230, 16>>, <<238, 16, 3>>,                  \* INC $10; INC $0310
     <<198, 16>>, <<206, 16, 3>>}                  \* DEC $10; DEC $0310

DataLogicPrograms(v) ==
    {<<41, v>>, <<37, 16>>, <<45, 16, 3>>,         \* AND #v; AND $10; AND $0310
     <<9, v>>, <<5, 16>>, <<13, 16, 3>>,           \* ORA #v; ORA $10; ORA $0310
     <<73, v>>, <<69, 16>>, <<77, 16, 3>>}         \* EOR #v; EOR $10; EOR $0310

\* TAX, TAY, TSX, TXA, TYA, PLA, INX, INY, DEX, DEY, TXS, and the stores
\* STA, STX, STY to 0x0010 and to 0x0310.
DataRegisterPrograms ==
    {<<170>>, <<168>>, <<186>>, <<138>>, <<152>>, <<104>>,
     <<232>>, <<200>>, <<202>>, <<136>>, <<154>>,
     <<133, 16>>, <<141, 16, 3>>, <<134, 16>>, <<142, 16, 3>>,
     <<132, 16>>, <<140, 16, 3>>}

\* CLC, SEC, CLD, SED, CLI, SEI, CLV.
FlagOpHexCodes == {24, 56, 216, 248, 88, 120, 184}

DataInit ==
    \/ \E v \in 0..255, p \in DataStatusFlags :
          \/ \E program \in DataLoadPrograms(v) :
                Running(Registers((v + 85) % 256, (v + 86) % 256, (v + 87) % 256,
                                  p, 253, 512),
                        PokeSeq(Poke(Poke(BlankBus, 16, v), 784, v), 512, program))
          \/ \E program \in DataRegisterPrograms :
                Running(Registers(v, (v + 85) % 256, (v + 170) % 256, p,
                                  (v + 128) % 256, 512),
                        PokeSeq(Poke(Poke(FilledStackBus, 16, 119), 784, 119),
                                512, program))
    \/ \E v \in 0..255, a \in DataAccumulators, p \in {32, 239} :
          \E program \in DataLogicPrograms(v) :
              Running(Registers(a, 1, 2, p, 253, 512),
                      PokeSeq(Poke(Poke(BlankBus, 16, v), 784, v), 512, program))
    \/ \E opHexCode \in FlagOpHexCodes, p \in RunningStatusFlags :
          Running(Registers(129, 1, 2, p, 253, 512),
                  PokeSeq(BlankBus, 512, <<opHexCode, opHexCode>>))

SpecData == DataInit /\ [][Step]_vars

---------------------------------------------------------------------------
(* SpecUndoc: Run entered at 0x0200 on an undocumented opcode: a combined   *)
(* read-modify-write, a NOP with or without operand bytes, or AXS           *)

CombinedOperations == {"*LAX", "*DCP", "*ISC", "*SLO", "*RLA", "*SRE", "*RRA"}

\* The opcodes of the table with one of the operations in one of the modes.
OpHexCodesOf(operations, modes) ==
    {h \in 0..255 : /\ hexToOpsCode[h].operation \in operations
                    /\ hexToOpsCode[h].addressingMode \in modes}

NopOperations == {"*DOP", "*TOP", "*NOP"}

NopOpHexCodes == {h \in 0..255 : hexToOpsCode[h].operation \in NopOperations}

\* Operand addresses of the Absolute mode: RAM, a PPU register, the
\* unmapped region and the cartridge.
UndocTargets == {784, 8193, 16416, 32784}

\* High operand bytes of the NOPs: RAM, PPU registers, unmapped, cartridge.
NopOperandsHigh == {0, 2, 32, 64, 128}

AxsIndexes == {15, 255}

AxsOpHexCode == 203

UndocInit ==
    \/ \E v \in 0..255, a \in DataAccumulators, p \in AluStatusFlags :
          \E h \in OpHexCodesOf(CombinedOperations, {"ZeroPage"}) :
              Running(Registers(a, (a + 85) % 256, 2, p, 253, 512),
                      PokeSeq(Poke(BlankBus, 16, v), 512, <<h, 16>>))
    \/ \E v \in AluBytes, a \in DataAccumulators, p \in AluStatusFlags :
          \E h \in OpHexCodesOf(CombinedOperations, {"Absolute"}),
             target \in UndocTargets :
              Running(Registers(a, (a + 85) % 256, 2, p, 253, 512),
                      PokeSeq(Poke(BlankBus, target, v), 512,
                              <<h>> \o LittleEndianPutUint16(target)))
    \/ \E h \in NopOpHexCodes,
          low \in StepOperandsLow, high \in NopOperandsHigh, c \in StepRegisters :
              Running([c EXCEPT !.programCounter = 512],
                      PokeSeq(BlankBus, 512, <<h, low, high>>))
    \/ \E v \in 0..255, a \in DataAccumulators, x \in AxsIndexes, p \in {36, 37} :
          Running(Registers(a, x, 2, p, 253, 512),
                  PokeSeq(BlankBus, 512, <<AxsOpHexCode, v>>))

SpecUndoc == UndocInit /\ [][Step]_vars

---------------------------------------------------------------------------
(* SpecParse: main reads a file of any of a family of lengths and header   *)
(* bytes and parses it                                                     *)

\* Lengths of the file: none, shorter than the fields of the header, the
\* header alone, and a header (and trainer) followed by 16 KiB or 32 KiB of
\* PRG and 8 KiB of CHR, complete or one byte short.
ParseLengths ==
    {0, 3, 4, 7, 8, 15, 16, 16399, 16400, 16912, 24592, 25104, 32784}

\* Bytes of the backing array beyond the length of the slice.
ParseSlacks == {0, 512}

ParseTags == {<<78, 69, 83, 26>>, <<78, 69, 83, 0>>, <<0, 69, 83, 26>>}

ParsePrgBanks == {0, 1, 2}

ParseChrBanks == {0, 1}

\* Control byte 1: nothing; vertical; trainer; four-screen and mapper 1;
\* every flag and mapper 15.
ParseControls1 == {0, 1, 4, 24, 253}

\* Control byte 2: nothing; bit 2; bit 3; mapper high nibble.
ParseControls2 == {0, 4, 8, 240}

\* Offsets in the file that hold a telling byte: the ends of the header, of
\* the trainer, of the PRG and of the CHR in each layout.
ParseMarks ==
    {16, 17, 527, 528, 529, 16399, 16400, 16911, 16912, 24591, 24592, 25103,
     32783}

ParseFill(i) == (i % 255) + 1

\* The slice that os.ReadFile returns for a file of len bytes: the header,
\* zeros but for the marks, and slack zero bytes of capacity after it.
RawFile(len, slack, header) ==
    [len |-> len, cap |-> len + slack,
     bytes |-> [i \in {k \in 0..15 : k < len /\ header[k + 1] # 0}
                      \cup {k \in ParseMarks : k < len} |->
                   IF i < 16 THEN header[i + 1] ELSE ParseFill(i)]]

ParseInit ==
    \E len \in ParseLengths, slack \in ParseSlacks, tag \in ParseTags,
       prg \in ParsePrgBanks, chr \in ParseChrBanks,
       control1 \in ParseControls1, control2 \in ParseControls2 :
        /\ cpu = NewCPU
        /\ bus = NewBus
        /\ run = "constructed"
        /\ panic = "none"
        /\ steps = 0
        /\ lastOp = [kind |-> "ReadFile",
                     raw |-> RawFile(len, slack,
                                     tag \o <<prg, chr, control1, control2,
                                              0, 0, 0, 0, 0, 0, 0, 0>>)]
        /\ lastJsr = NoJsr
        /\ consoleBus = NewBus

SpecParse == ParseInit /\ [][CallParseRawRom]_vars

---------------------------------------------------------------------------
(* Properties of the bus *)

\* The four addresses of 0x0000-0x1FFF that share the masked index of address.
RamMirrors(address) == {(address % 2048) + k * 2048 : k \in 0..3}

\* C1 - RAM mirroring.  After a write of v to an address a of 0x0000-0x1FFF, a
\* read of every address of 0x0000-0x1FFF with the same index (a mod 0x0800)
\* returns v, and every storage cell with another index, read through any of
\* the probed RAM addresses or looked up in the storage itself, keeps the
\* value it had before the write.
C1_RamMirroring ==
    [][(lastOp'.kind = "MemoryWrite" /\ lastOp'.address <= 8191) =>
        /\ panic' = "none"
        /\ \A mirror \in RamMirrors(lastOp'.address) :
              MemoryRead(bus', mirror) = lastOp'.data
        /\ \A other \in (BusAddresses \cap 0..8191) \ RamMirrors(lastOp'.address) :
              MemoryRead(bus', other) = MemoryRead(bus, other)
        /\ \A j \in (DOMAIN bus.memory \cup DOMAIN bus'.memory)
                        \ {lastOp'.address % 2048} :
              ArrayGet(bus'.memory, j) = ArrayGet(bus.memory, j)
        /\ bus'.rom = bus.rom
    ]_vars

\* A write through the last mirror (0x1FFF) is read back at 0x07FF, while the
\* cell 0 written before still holds its byte.
C1_Witness ==
    /\ lastOp.kind = "MemoryWrite"
    /\ lastOp.address = 8191
    /\ lastOp.data = 165
    /\ MemoryRead(bus, 2047) = 165
    /\ MemoryRead(bus, 6143) = 165
    /\ MemoryRead(bus, 2048) = 255

\* Offsets into the PRG bytes that are probed: both ends of each 16 KiB half.
PrgOffsets == {0, 1, 2, 8191, 16380, 16381, 16382, 16383}

\* C2 - PRG-ROM windowing.  With a 16 KiB cartridge a read of 0x8000 + k and
\* a read of 0xC000 + k both return prg[k]; with a 32 KiB cartridge a read of
\* 0x8000 + k returns prg[k], in the lower and in the upper half; and no read
\* of the window made by the client indexes outside the PRG bytes.
C2_PrgWindowing ==
    /\ bus.rom.prgRomLen = 16384 =>
          \A k \in PrgOffsets :
              /\ MemoryRead(bus, 32768 + k) = ArrayGet(bus.rom.prgRom, k)
              /\ MemoryRead(bus, 49152 + k) = ArrayGet(bus.rom.prgRom, k)
    /\ bus.rom.prgRomLen = 32768 =>
          \A k \in PrgOffsets :
              /\ MemoryRead(bus, 32768 + k) = ArrayGet(bus.rom.prgRom, k)
              /\ MemoryRead(bus, 49152 + k) = ArrayGet(bus.rom.prgRom, 16384 + k)
    /\ (lastOp.kind = "MemoryRead" /\ lastOp.address >= 32768) =>
          /\ lastOp.result \in 0..255
          /\ panic = "none"
          /\ lastOp.result =
                ArrayGet(bus.rom.prgRom,
                         IF bus.rom.prgRomLen = 16384
                         THEN (lastOp.address - 32768) % 16384
                         ELSE lastOp.address - 32768)

\* The client read 0xFFFD of the 16 KiB cartridge and got the byte at offset
\* 0x3FFD, which is not the byte at offset 0.
C2_Witness ==
    /\ lastOp.kind = "MemoryRead"
    /\ lastOp.address = 65533
    /\ bus.rom = Rom16
    /\ lastOp.result = 18
    /\ MemoryRead(bus, 49152) = 170

\* Addresses of the PRG-ROM window that are probed: the start of each half,
\* the programs at the entry point, and the vectors.
RomProbes == {32768, 32769, 49151} \cup 49152..49160 \cup {65532, 65533, 65535}

\* C3 - PRG-ROM is read-only.  A write by the client to an address of
\* 0x8000-0xFFFF ends the process with a panic and leaves the whole bus (RAM,
\* PPU registers, PRG bytes) as it was; and every step of the machine other
\* than the loading of a cartridge (client reads and writes, Reset, entering
\* Run, every iteration of Run, completed or not) leaves every probed address
\* of the window reading the byte of the cartridge that was loaded.
C3_PrgRomReadOnly ==
    [][/\ (lastOp'.kind = "MemoryWrite" /\ lastOp'.address >= 32768) =>
            /\ panic' = "PrgRomWrite"
            /\ run' = "panic"
            /\ bus' = bus
       /\ (lastOp'.kind # "LoadRom" /\ bus.rom # NilRom) =>
            /\ bus'.rom = bus.rom
            /\ \A address \in RomProbes :
                  /\ MemoryRead(bus', address) = MemoryRead(bus, address)
                  /\ MemoryRead(bus', address) =
                        ArrayGet(bus.rom.prgRom,
                                 IF bus.rom.prgRomLen = 16384
                                 THEN (address - 32768) % 16384
                                 ELSE address - 32768)
    ]_vars

\* After a program ran to its BRK and stored into RAM, the client wrote to
\* 0x8000: the process panicked and the first PRG byte is still its LDA opcode.
C3_Witness ==
    /\ lastOp.kind = "MemoryWrite"
    /\ lastOp.address = 32768
    /\ lastOp.data = 165
    /\ panic = "PrgRomWrite"
    /\ steps > 0
    /\ bus.rom.prgRomLen = 16384
    /\ MemoryRead(bus, 32768) = 169
    /\ bus.memory # EmptyArray

\* C4 - Unmapped region.  A read and a write by the client at an address of
\* 0x4000-0x7FFF end the process with a panic: the read yields no byte, the
\* write stores nothing, and RAM, PPU-register storage and PRG are unchanged.
C4_UnmappedFatal ==
    [][(/\ lastOp'.kind \in {"MemoryRead", "MemoryWrite"}
        /\ lastOp'.address >= 16384
        /\ lastOp'.address <= 32767) =>
            /\ panic' = "UnsupportedAddress"
            /\ run' = "panic"
            /\ bus' = bus
            /\ lastOp'.kind = "MemoryRead" => lastOp'.result \notin 0..255
    ]_vars

\* A read of 0x5000 panicked on a bus whose RAM had been written.
C4_Witness ==
    /\ lastOp.kind = "MemoryRead"
    /\ lastOp.address = 20480
    /\ panic = "UnsupportedAddress"
    /\ run = "panic"
    /\ MemoryRead(bus, 0) = 165

---------------------------------------------------------------------------
(* Properties of Reset *)

\* C5 - Reset postcondition on registers.  Whatever the registers were before
\* it, Reset leaves A = 0, X = 0, Y = 0, P = 0x24 and SP = 0xFD, and the bus
\* (memory and cartridge) as it was.
C5_ResetRegisters ==
    [][lastOp'.kind = "Reset" =>
        /\ cpu'.registerA = 0
        /\ cpu'.registerX = 0
        /\ cpu'.registerY = 0
        /\ cpu'.statusFlags = 36
        /\ cpu'.stackPointer = 253
        /\ bus' = bus
        /\ panic' = panic
    ]_vars

\* Reset after a program that moved A, Y, SP and P and wrote to the stack.
C5_Witness ==
    /\ lastOp.kind = "Reset"
    /\ lastOp.before.registerA # 0
    /\ lastOp.before.registerY # 0
    /\ lastOp.before.stackPointer # 253
    /\ lastOp.before.statusFlags # 36
    /\ bus.memory # EmptyArray
    /\ cpu.registerA = 0
    /\ cpu.stackPointer = 253

\* C6 - Reset vector.  After Reset the program counter is the little-endian
\* word that the loaded cartridge holds at 0xFFFC (low) and 0xFFFD (high).
C6_ResetVector ==
    lastOp.kind = "Reset" =>
        cpu.programCounter =
            LittleEndianUint16(MemoryRead(bus, 65532), MemoryRead(bus, 65533))

---------------------------------------------------------------------------
(* Properties of the program counter *)

\* The operations whose step sets the program counter itself, or returns.
ControlOperations ==
    {"BCC", "BCS", "BEQ", "BNE", "BMI", "BPL", "BVC", "BVS",
     "JMP", "JSR", "RTS", "RTI", "BRK"}

\* The size of an instruction as the instruction set defines it; -1 for the
\* modes that only branches and JMP use.
InstructionSize(addressingMode) ==
    CASE addressingMode \in {"Implied", "Accumulator"} -> 1
      [] addressingMode \in {"Immediate", "ZeroPage", "ZeroPageX", "ZeroPageY",
                             "IndirectX", "IndirectY"} -> 2
      [] addressingMode \in {"Absolute", "AbsoluteX", "AbsoluteY"} -> 3
      [] OTHER -> -1

BranchTaken(opHexCode, p) ==
    CASE opHexCode = 16 -> (p \div 128) % 2 = 0      \* BPL: N clear
      [] opHexCode = 48 -> (p \div 128) % 2 = 1      \* BMI: N set
      [] opHexCode = 80 -> (p \div 64) % 2 = 0       \* BVC: V clear
      [] opHexCode = 112 -> (p \div 64) % 2 = 1      \* BVS: V set
      [] opHexCode = 144 -> p % 2 = 0                \* BCC: C clear
      [] opHexCode = 176 -> p % 2 = 1                \* BCS: C set
      [] opHexCode = 208 -> (p \div 2) % 2 = 0       \* BNE: Z clear
      [] opHexCode = 240 -> (p \div 2) % 2 = 1       \* BEQ: Z set
      [] OTHER -> FALSE

SignExtend(o) == IF o >= 128 THEN o - 256 ELSE o

\* C8 - Branches.  After an iteration of Run on a branch opcode at p with
\* offset byte o, the program counter is (p + 2 + sign_extend(o)) mod 65536
\* if the flag condition of the opcode holds and (p + 2) mod 65536 if not,
\* and A, X, Y, SP, P and the bus are what they were.
C8_Branches ==
    [][(lastOp'.kind = "Step" /\ lastOp'.stepInfos.opHexCode \in BranchOpHexCodes) =>
        /\ panic' = "none"
        /\ cpu'.programCounter =
              IF BranchTaken(lastOp'.stepInfos.opHexCode, cpu.statusFlags)
              THEN (cpu.programCounter + 2
                      + SignExtend(MemoryRead(bus, U16(cpu.programCounter + 1)))
                      + 65536) % 65536
              ELSE (cpu.programCounter + 2) % 65536
        /\ cpu' = [cpu EXCEPT !.programCounter = cpu'.programCounter]
        /\ bus' = bus
    ]_vars

\* C9 - Jump target.  After an iteration of Run on JMP (Absolute or Indirect)
\* or JSR that completed, the program counter is the operand address that the
\* step resolved; for the Absolute mode this is the word that follows the
\* opcode, also when that word is the address of the instruction itself.
C9_JumpTarget ==
    (/\ lastOp.kind = "Step"
     /\ panic = "none"
     /\ lastOp.stepInfos.opCode.operation \in {"JMP", "JSR"}) =>
        /\ cpu.programCounter = lastOp.stepInfos.operandAddress
        /\ lastOp.stepInfos.opCode.addressingMode = "Absolute" =>
              cpu.programCounter =
                  LittleEndianUint16(
                      MemoryRead(bus, U16(lastOp.before.programCounter + 1)),
                      MemoryRead(bus, U16(lastOp.before.programCounter + 2)))

\* C10 - JSR/RTS round trip.  An iteration of Run on JSR at p with target t
\* that completed leaves the high byte of p + 2 at 0x0100 + SP, its low byte
\* one below (within the stack page), SP lowered by 2 and PC = t.  An
\* iteration on RTS that completed, entered with SP and those two stack bytes
\* as the last JSR left them, leaves PC = (p + 3) mod 65536 and SP as it was
\* before that JSR.
C10_JsrRtsRoundTrip ==
    [][/\ (/\ lastOp'.kind = "Step"
           /\ panic' = "none"
           /\ lastOp'.stepInfos.opCode.operation = "JSR") =>
            /\ MemoryRead(bus', 256 + cpu.stackPointer)
                  = ((cpu.programCounter + 2) % 65536) \div 256
            /\ MemoryRead(bus', 256 + ((cpu.stackPointer + 255) % 256))
                  = ((cpu.programCounter + 2) % 65536) % 256
            /\ cpu'.stackPointer = (cpu.stackPointer + 254) % 256
            /\ cpu'.programCounter = lastOp'.stepInfos.operandAddress
       /\ (/\ lastOp'.kind = "Step"
           /\ panic' = "none"
           /\ lastOp'.stepInfos.opCode.operation = "RTS"
           /\ lastJsr # NoJsr
           /\ cpu.stackPointer = (lastJsr.stackPointer + 254) % 256
           /\ MemoryRead(bus, 256 + lastJsr.stackPointer)
                  = ((lastJsr.at + 2) % 65536) \div 256
           /\ MemoryRead(bus, 256 + ((lastJsr.stackPointer + 255) % 256))
                  = ((lastJsr.at + 2) % 65536) % 256) =>
            /\ cpu'.programCounter = (lastJsr.at + 3) % 65536
            /\ cpu'.stackPointer = lastJsr.stackPointer
    ]_vars

---------------------------------------------------------------------------
(* Properties of the stack *)

\* C11 - Push/pull round trip.  A pullStack that follows a pushStack of v
\* returns v and leaves SP as it was before the push (also from SP = 0x00,
\* where the push wraps SP to 0xFF), and the memory after the two calls is
\* the memory before them in every cell but the stack slot 0x0100 + SP; a
\* pullStackU16 that follows a pushStackU16 of w returns w and leaves SP as it
\* was before the push.
C11_PushPullRoundTrip ==
    [][/\ (lastOp.kind = "pushStack" /\ lastOp'.kind = "pullStack") =>
            /\ lastOp'.value = lastOp.value
            /\ cpu'.stackPointer = lastOp.before.stackPointer
            /\ cpu' = lastOp.before
            /\ \A j \in (DOMAIN bus'.memory \cup DOMAIN lastOp.memory)
                           \ {256 + lastOp.before.stackPointer} :
                    ArrayGet(bus'.memory, j) = ArrayGet(lastOp.memory, j)
            /\ bus'.rom = bus.rom
            /\ panic' = "none"
       /\ (lastOp.kind = "pushStackU16" /\ lastOp'.kind = "pullStackU16") =>
            /\ lastOp'.value = lastOp.value
            /\ cpu'.stackPointer = lastOp.before.stackPointer
            /\ cpu' = lastOp.before
            /\ panic' = "none"
    ]_vars

\* From SP = 0x00 the word 0x1234 was pushed (SP wrapped to 0xFE) and pulled
\* back, leaving its high byte at 0x0100 and its low byte at 0x01FF.
C11_Witness ==
    /\ lastOp.kind = "pullStackU16"
    /\ lastOp.value = 4660
    /\ lastOp.before.stackPointer = 254
    /\ cpu.stackPointer = 0
    /\ MemoryRead(bus, 256) = 18
    /\ MemoryRead(bus, 511) = 52
    /\ steps = 2

\* The address of the stack slot n above sp, within the stack page.
StackSlot(sp, n) == 256 + ((sp + n) % 256)

\* The cells of the storage in which the memories before and after differ.
ChangedCells(before, after) ==
    {j \in DOMAIN before \cup DOMAIN after : ArrayGet(before, j) # ArrayGet(after, j)}

\* The byte v with bit 4 cleared and bit 5 set.
PulledStatus(v) == v - ((v \div 16) % 2) * 16 + (1 - ((v \div 32) % 2)) * 32

\* C12 - Stack confinement.  SP is a byte after every iteration of Run.  An
\* iteration that completes on a push (PHA, PHP, JSR) lowers SP by 1 per byte
\* pushed, modulo 256, and writes only the slots 0x0100 + SP (and the one
\* below, for JSR), inside 0x0100-0x01FF; one that completes on a pull (PLA,
\* PLP, RTS, RTI) raises SP by 1 per byte pulled, modulo 256, writes nothing,
\* and the bytes it pulls are those of the slots above SP inside 0x0100-0x01FF
\* (seen in A, P and PC; PC only when the pulled address is not the address of
\* the instruction itself).
C12_StackConfinement ==
    [][lastOp'.kind = "Step" =>
        LET operation == lastOp'.stepInfos.opCode.operation
            sp == cpu.stackPointer
            pc == cpu.programCounter
            slot(n) == MemoryRead(bus, StackSlot(sp, n))
        IN  /\ cpu'.stackPointer \in 0..255
            /\ (panic' = "none" /\ operation \in {"PHA", "PHP"}) =>
                  /\ cpu'.stackPointer = (sp + 255) % 256
                  /\ ChangedCells(bus.memory, bus'.memory) \subseteq {StackSlot(sp, 0)}
                  /\ operation = "PHA" =>
                        MemoryRead(bus', StackSlot(sp, 0)) = cpu.registerA
            /\ (panic' = "none" /\ operation = "JSR") =>
                  /\ cpu'.stackPointer = (sp + 254) % 256
                  /\ ChangedCells(bus.memory, bus'.memory)
                        \subseteq {StackSlot(sp, 0), StackSlot(sp, 255)}
            /\ (panic' = "none" /\ operation = "PLA") =>
                  /\ cpu'.stackPointer = (sp + 1) % 256
                  /\ cpu'.registerA = slot(1)
                  /\ bus' = bus
            /\ (panic' = "none" /\ operation = "PLP") =>
                  /\ cpu'.stackPointer = (sp + 1) % 256
                  /\ cpu'.statusFlags = PulledStatus(slot(1))
                  /\ bus' = bus
            /\ (panic' = "none" /\ operation = "RTS") =>
                  /\ cpu'.stackPointer = (sp + 2) % 256
                  /\ (slot(1) + 256 * slot(2) + 1) % 65536 # pc =>
                        cpu'.programCounter = (slot(1) + 256 * slot(2) + 1) % 65536
                  /\ bus' = bus
            /\ (panic' = "none" /\ operation = "RTI") =>
                  /\ cpu'.stackPointer = (sp + 3) % 256
                  /\ cpu'.statusFlags = PulledStatus(slot(1))
                  /\ slot(2) + 256 * slot(3) # pc =>
                        cpu'.programCounter = slot(2) + 256 * slot(3)
                  /\ bus' = bus
    ]_vars

\* PLA at 0x0200 with SP = 0xFF: SP wrapped to 0x00 and A is the byte of
\* 0x0100, not the byte of 0x0200 (the PLA opcode itself).
C12_Witness ==
    /\ lastOp.kind = "Step"
    /\ lastOp.stepInfos.opCode.operation = "PLA"
    /\ lastOp.before.stackPointer = 255
    /\ lastOp.before.programCounter = 512
    /\ cpu.stackPointer = 0
    /\ cpu.registerA = 3
    /\ MemoryRead(bus, 512) = 104
    /\ panic = "none"

\* C13 - Status bit 5.  In every state from the entry of Run on, whatever the
\* opcodes executed and whatever bytes PLP and RTI pulled, bit 5 of the status
\* register is 1.
C13_StatusBit5 == (cpu.statusFlags \div 32) % 2 = 1

\* PLP pulled a byte whose bit 5 is clear and whose bit 4 is set (0x10) and
\* left P = 0x20.
C13_Witness ==
    /\ lastOp.kind = "Step"
    /\ lastOp.stepInfos.opCode.operation = "PLP"
    /\ MemoryRead(bus, StackSlot(lastOp.before.stackPointer, 1)) = 16
    /\ cpu.statusFlags = 32
    /\ panic = "none"

---------------------------------------------------------------------------
(* Properties of the run loop *)

\* C14 - BRK halts the run loop.  An iteration of Run returns from Run if and
\* only if the opcode it fetched at PC is BRK (0x00); the iteration that
\* returns leaves A, X, Y, SP, P, PC and the bus as they were; and Run keeps
\* making iterations until it returns or panics (or has made MaxSteps of them).
C14_BrkHalts ==
    /\ [][lastOp'.kind = "Step" =>
            /\ (run' = "returned") <=> (MemoryRead(bus, cpu.programCounter) = 0)
            /\ run' = "returned" => (cpu' = cpu /\ bus' = bus)
       ]_vars
    /\ <>(run \in {"returned", "panic"} \/ steps = MaxSteps)

\* The program LDA #v; TAX; INX; BRK is at 0xC000, for the v at 0xC001.
LoadTransferIncrementLoaded ==
    \A i \in 1..5 :
        MemoryRead(bus, 49151 + i) = LoadTransferIncrement(MemoryRead(bus, 49153))[i]

\* C15 - End-to-end load/transfer/increment.  For every byte v, Run entered
\* after Reset on the program A9 v AA E8 00 at 0xC000 returns, and when it has
\* returned it has made four iterations, PC is on the BRK, A = v,
\* X = (v + 1) mod 256, Z = 1 iff X = 0 and N = bit 7 of X.
C15_LoadTransferIncrement ==
    /\ []((LoadTransferIncrementLoaded /\ run = "returned") =>
            /\ steps = 4
            /\ cpu.programCounter = 49156
            /\ cpu.registerA = MemoryRead(bus, 49153)
            /\ cpu.registerX = (MemoryRead(bus, 49153) + 1) % 256
            /\ (cpu.statusFlags \div 2) % 2 = (IF cpu.registerX = 0 THEN 1 ELSE 0)
            /\ (cpu.statusFlags \div 128) % 2 = cpu.registerX \div 128
            /\ panic = "none")
    /\ (LoadTransferIncrementLoaded /\ run = "ready")
            ~> (LoadTransferIncrementLoaded /\ run = "returned")

\* The run of A9 FF AA E8 00 has returned with A = 0xFF, X = 0x00, Z = 1, N = 0.
C15_Witness ==
    /\ run = "returned"
    /\ MemoryRead(bus, 49153) = 255
    /\ MemoryRead(bus, 49154) = 170
    /\ cpu.registerA = 255
    /\ cpu.registerX = 0
    /\ cpu.statusFlags = 38
    /\ steps = 4

---------------------------------------------------------------------------
(* Properties of the arithmetic, compare and BIT instructions *)

\* Bit k of the byte v.
Bit(v, k) == (v \div (2 ^ k)) % 2

\* The last iteration executed one of the operations and did not panic.
Executed(operations) ==
    /\ lastOp.kind = "Step"
    /\ lastOp.stepInfos.opCode.operation \in operations
    /\ panic = "none"

\* The operand byte of the last iteration.
OperandByte == MemoryRead(bus, lastOp.stepInfos.operandAddress)

\* The status register with the bits of Z, N, C and V replaced.
WithFlags(p, z, n, c, v) ==
    p - Bit(p, 0) - (2 * Bit(p, 1)) - (64 * Bit(p, 6)) - (128 * Bit(p, 7))
      + c + (2 * z) + (64 * v) + (128 * n)

\* C16 - ADC.  After ADC with operand M on accumulator A and carry C,
\* A = (A + M + C) mod 256, the carry is set iff A + M + C > 0xFF, V is set iff
\* A and M both differ in sign from the result, Z is set iff the result is 0
\* and N is bit 7 of the result; the other status bits, the decimal flag
\* among them, are kept and have no effect on the result.
C16_Adc ==
    Executed({"ADC"}) =>
        LET a == lastOp.before.registerA
            c == Bit(lastOp.before.statusFlags, 0)
            sum == a + OperandByte + c
            result == sum % 256
            v == IF /\ Bit(a, 7) # Bit(result, 7)
                    /\ Bit(OperandByte, 7) # Bit(result, 7) THEN 1 ELSE 0
        IN  /\ cpu.registerA = result
            /\ cpu.statusFlags =
                   WithFlags(lastOp.before.statusFlags,
                             IF result = 0 THEN 1 ELSE 0, Bit(result, 7),
                             IF sum > 255 THEN 1 ELSE 0, v)

\* ADC #$50 on A = 0x50 with the carry clear and the decimal flag set gave
\* A = 0xA0 with C = 0, V = 1, N = 1, Z = 0.
C16_Witness ==
    /\ Executed({"ADC"})
    /\ lastOp.before.registerA = 80
    /\ OperandByte = 80
    /\ lastOp.before.statusFlags = 238
    /\ cpu.registerA = 160
    /\ cpu.statusFlags = 236

\* The state that ADC gives from the state before the last iteration when the
\* operand byte is replaced by operand.
AdcOf(operand) ==
    adc(Machine(lastOp.before, Poke(bus, lastOp.stepInfos.operandAddress, operand)),
        lastOp.stepInfos)

\* C17 - SBC.  After SBC with operand M, by an official opcode or by the
\* undocumented 0xEB, A and the flags C, V, Z and N are those that ADC with
\* operand M xor 0xFF gives from the same accumulator and carry.
C17_SbcIsAdcOfComplement ==
    Executed({"SBC", "*SBC"}) =>
        cpu = [AdcOf(255 - OperandByte).cpu EXCEPT !.programCounter = cpu.programCounter]

\* The undocumented 0xEB with operand 0x01 on A = 0x00 and the carry clear
\* gave A = 0xFE with C = 0 and N = 1, as ADC #$FE does.
C17_Witness ==
    /\ Executed({"*SBC"})
    /\ lastOp.stepInfos.opHexCode = 235
    /\ lastOp.before.registerA = 0
    /\ OperandByte = 1
    /\ lastOp.before.statusFlags = 36
    /\ cpu.registerA = 254
    /\ cpu.statusFlags = 164

\* The program at 0x0200 is ADC #b; CLC or SEC; SBC #b and has been run to
\* its end.
AdcSbcDone ==
    /\ MemoryRead(bus, 512) = 105
    /\ MemoryRead(bus, 514) \in {24, 56}
    /\ MemoryRead(bus, 515) = 233
    /\ MemoryRead(bus, 516) = MemoryRead(bus, 513)
    /\ cpu.programCounter = 517
    /\ steps = 3
    /\ panic = "none"

\* C18 - ADC/SBC round trip.  ADC #b with carry c, then the carry set to the
\* complement of c, then SBC #b, leaves A as it was on entry.  X is not
\* touched by the program and is A + 85 on entry.
C18_AdcSbcRoundTrip ==
    AdcSbcDone /\ Executed({"SBC"})
        => cpu.registerA = (cpu.registerX + 171) % 256

\* With the carry clear, ADC #$FF on A = 0x80 wrapped to 0x7F; then SEC and
\* SBC #$FF gave A = 0x80 back.
C18_Witness ==
    /\ AdcSbcDone
    /\ Executed({"SBC"})
    /\ MemoryRead(bus, 513) = 255
    /\ MemoryRead(bus, 514) = 56
    /\ lastOp.before.registerA = 127
    /\ cpu.registerX = 213
    /\ cpu.registerA = 128

\* The register that the operation compares.
ComparedRegister(operation, c) ==
    CASE operation = "CMP" -> c.registerA
      [] operation = "CPX" -> c.registerX
      [] operation = "CPY" -> c.registerY

\* C19 - Compares.  An iteration that executes CMP, CPX or CPY with operand M
\* sets C iff the register >= M, Z iff the register = M and N to bit 7 of
\* (register - M) mod 256, and leaves A, X, Y, SP, V, the other status bits
\* and the bus as they were.
C19_Compares ==
    [][(lastOp'.kind = "Step" /\ lastOp'.stepInfos.opCode.operation \in {"CMP", "CPX", "CPY"}) =>
        LET register == ComparedRegister(lastOp'.stepInfos.opCode.operation, cpu)
            operand == MemoryRead(bus, lastOp'.stepInfos.operandAddress)
        IN  /\ panic' = "none"
            /\ bus' = bus
            /\ cpu' = [cpu EXCEPT
                   !.programCounter = cpu'.programCounter,
                   !.statusFlags =
                       WithFlags(cpu.statusFlags,
                                 IF register = operand THEN 1 ELSE 0,
                                 Bit((register - operand + 256) % 256, 7),
                                 IF register >= operand THEN 1 ELSE 0,
                                 Bit(cpu.statusFlags, 6))]
    ]_vars

\* CPX #$80 on X = 0x7F with every flag of the arithmetic set gave C = 0,
\* Z = 0, N = 1 and kept V.
C19_Witness ==
    /\ Executed({"CPX"})
    /\ lastOp.before.registerX = 127
    /\ OperandByte = 128
    /\ lastOp.before.statusFlags = 239
    /\ cpu.statusFlags = 236
    /\ cpu.registerX = 127

\* The bitwise AND of the bytes a and b.
AndOfBytes(a, b) ==
    Bit(a, 0) * Bit(b, 0) + 2 * (Bit(a, 1) * Bit(b, 1))
        + 4 * (Bit(a, 2) * Bit(b, 2)) + 8 * (Bit(a, 3) * Bit(b, 3))
        + 16 * (Bit(a, 4) * Bit(b, 4)) + 32 * (Bit(a, 5) * Bit(b, 5))
        + 64 * (Bit(a, 6) * Bit(b, 6)) + 128 * (Bit(a, 7) * Bit(b, 7))

\* C20 - BIT.  An iteration that executes BIT with operand M sets Z iff
\* (A AND M) = 0, N to bit 7 of M and V to bit 6 of M, and leaves A, the
\* carry, the other registers and status bits and the bus as they were.
C20_Bit ==
    [][(lastOp'.kind = "Step" /\ lastOp'.stepInfos.opCode.operation = "BIT") =>
        LET operand == MemoryRead(bus, lastOp'.stepInfos.operandAddress)
        IN  /\ panic' = "none"
            /\ bus' = bus
            /\ cpu' = [cpu EXCEPT
                   !.programCounter = cpu'.programCounter,
                   !.statusFlags =
                       WithFlags(cpu.statusFlags,
                                 IF AndOfBytes(cpu.registerA, operand) = 0 THEN 1 ELSE 0,
                                 Bit(operand, 7),
                                 Bit(cpu.statusFlags, 0),
                                 Bit(operand, 6))]
    ]_vars

\* BIT $0310 on A = 0x3F with 0xC0 at 0x0310 gave Z = 1, N = 1, V = 1 and
\* kept A and the clear carry.
C20_Witness ==
    /\ Executed({"BIT"})
    /\ lastOp.stepInfos.operandAddress = 784
    /\ OperandByte = 192
    /\ lastOp.before.registerA = 63
    /\ lastOp.before.statusFlags = 36
    /\ cpu.registerA = 63
    /\ cpu.statusFlags = 230

---------------------------------------------------------------------------
(* Properties of the status image on the stack *)

\* An iteration of Run executes the operation and completes.
Executes(operation) ==
    /\ lastOp'.kind = "Step"
    /\ lastOp'.stepInfos.opCode.operation = operation
    /\ panic' = "none"

\* C21 - PHP/PLP status image.  An iteration that executes PHP writes P with
\* bits 4 and 5 set at 0x0100 + SP and leaves P as it was; one that executes
\* PLP leaves P = the byte pulled with bit 5 set and bit 4 clear; and a PLP
\* that follows a PHP leaves P and SP as they were before the PHP.
C21_PhpPlpStatusImage ==
    [][/\ Executes("PHP") =>
            /\ MemoryRead(bus', 256 + cpu.stackPointer)
                  = cpu.statusFlags + (16 * (1 - Bit(cpu.statusFlags, 4)))
                                    + (32 * (1 - Bit(cpu.statusFlags, 5)))
            /\ cpu'.statusFlags = cpu.statusFlags
       /\ Executes("PLP") =>
            /\ Bit(cpu'.statusFlags, 5) = 1
            /\ Bit(cpu'.statusFlags, 4) = 0
            /\ \A k \in {0, 1, 2, 3, 6, 7} :
                  Bit(cpu'.statusFlags, k)
                      = Bit(MemoryRead(bus, StackSlot(cpu.stackPointer, 1)), k)
       /\ (Executes("PLP") /\ Executed({"PHP"})) =>
            /\ cpu'.statusFlags = lastOp.before.statusFlags
            /\ cpu'.stackPointer = lastOp.before.stackPointer
    ]_vars

\* PHP with P = 0xEF and SP = 0x00 wrote 0xFF at 0x0100, and the PLP after it
\* left P = 0xEF and SP = 0x00.
C21_Witness ==
    /\ Executed({"PLP"})
    /\ steps = 2
    /\ MemoryRead(bus, 512) = 8
    /\ MemoryRead(bus, 256) = 255
    /\ lastOp.before.stackPointer = 255
    /\ cpu.statusFlags = 239
    /\ cpu.stackPointer = 0

\* C29 - RTI.  An iteration that executes RTI leaves P = the byte of the slot
\* above SP with bit 5 set and bit 4 clear, PC = the word of the two slots
\* above that one, low byte first, whatever that word is, and SP raised by 3
\* modulo 256.
C29_Rti ==
    [][Executes("RTI") =>
        /\ cpu'.statusFlags = PulledStatus(MemoryRead(bus, StackSlot(cpu.stackPointer, 1)))
        /\ cpu'.programCounter =
               MemoryRead(bus, StackSlot(cpu.stackPointer, 2))
                   + (256 * MemoryRead(bus, StackSlot(cpu.stackPointer, 3)))
        /\ cpu'.stackPointer = (cpu.stackPointer + 3) % 256
    ]_vars

---------------------------------------------------------------------------
(* Properties of the addressing modes *)

\* An iteration of Run decodes an instruction in the addressing mode and
\* computes the address of its operand.
Addresses(mode) ==
    /\ lastOp'.kind = "Step"
    /\ lastOp'.stepInfos.opCode.addressingMode = mode
    /\ ~IsPanic(lastOp'.stepInfos.operandAddress)

\* The byte and the word that follow the opcode at PC.
ByteAfterOpcode == MemoryRead(bus, (cpu.programCounter + 1) % 65536)

WordAfterOpcode ==
    ByteAfterOpcode + (256 * MemoryRead(bus, (cpu.programCounter + 2) % 65536))

\* The word of the bytes at the addresses low and high of the bus.
WordAt(low, high) == MemoryRead(bus, low) + (256 * MemoryRead(bus, high))

\* C22 - JMP indirect page-wrap quirk.  An iteration that executes JMP (ptr)
\* takes the low byte of the target at ptr and the high byte at ptr + 1, or at
\* the first byte of the page of ptr when ptr is the last byte of its page,
\* and leaves PC on that target (when the target is not the address of the
\* JMP itself).
C22_JmpIndirectPageWrap ==
    [][Addresses("Indirect") =>
        LET ptr == WordAfterOpcode
            target == WordAt(ptr, IF ptr % 256 = 255 THEN ptr - 255 ELSE ptr + 1)
        IN  /\ lastOp'.stepInfos.operandAddress = target
            /\ panic' = "none"
            /\ target # cpu.programCounter => cpu'.programCounter = target
    ]_vars

\* JMP ($02FF) with 0x05 at 0x02FF, 0x06 at 0x0200 and 0x01 at 0x0300 left
\* PC = 0x0605.
C22_Witness ==
    /\ Executed({"JMP"})
    /\ steps = 1
    /\ MemoryRead(bus, 1537) = 255
    /\ MemoryRead(bus, 1538) = 2
    /\ MemoryRead(bus, 767) = 5
    /\ MemoryRead(bus, 512) = 6
    /\ MemoryRead(bus, 768) = 1
    /\ cpu.programCounter = 1541

\* C23 - Zero-page index wrap.  The operand address of an iteration is
\* (base + X) mod 256 in ZeroPageX and (base + Y) mod 256 in ZeroPageY, inside
\* 0x0000-0x00FF, and (word + X) mod 65536 in AbsoluteX and (word + Y) mod
\* 65536 in AbsoluteY, for the byte base or the word at PC + 1; a load that
\* completes loads the byte at that address.
C23_IndexWrap ==
    [][/\ Addresses("ZeroPageX") =>
            /\ lastOp'.stepInfos.operandAddress = (ByteAfterOpcode + cpu.registerX) % 256
            /\ lastOp'.stepInfos.operandAddress \in 0..255
       /\ Addresses("ZeroPageY") =>
            /\ lastOp'.stepInfos.operandAddress = (ByteAfterOpcode + cpu.registerY) % 256
            /\ lastOp'.stepInfos.operandAddress \in 0..255
       /\ Addresses("AbsoluteX") =>
            lastOp'.stepInfos.operandAddress = (WordAfterOpcode + cpu.registerX) % 65536
       /\ Addresses("AbsoluteY") =>
            lastOp'.stepInfos.operandAddress = (WordAfterOpcode + cpu.registerY) % 65536
       /\ (/\ lastOp'.kind = "Step"
           /\ panic' = "none"
           /\ lastOp'.stepInfos.opHexCode \in {181, 189, 185}) =>
            cpu'.registerA = MemoryRead(bus, lastOp'.stepInfos.operandAddress)
    ]_vars

\* LDA $FF,X with X = 2 loaded the byte of 0x0001, not the byte of 0x0101.
C23_Witness ==
    /\ Executed({"LDA"})
    /\ lastOp.stepInfos.opHexCode = 181
    /\ MemoryRead(bus, 1537) = 255
    /\ cpu.registerX = 2
    /\ lastOp.stepInfos.operandAddress = 1
    /\ cpu.registerA = 1
    /\ MemoryRead(bus, 257) = 4

\* C24 - Zero-page pointer wrap in indirect modes.  In IndirectX the operand
\* address is the word at p and (p + 1) mod 256, p = (base + X) mod 256; in
\* IndirectY it is the word at base and (base + 1) mod 256, plus Y, modulo
\* 65536; both pointer bytes are at addresses in 0x0000-0x00FF; a load that
\* completes loads the byte at that address.
C24_PointerWrap ==
    [][/\ Addresses("IndirectX") =>
            LET pointer == (ByteAfterOpcode + cpu.registerX) % 256
            IN  lastOp'.stepInfos.operandAddress = WordAt(pointer, (pointer + 1) % 256)
       /\ Addresses("IndirectY") =>
            lastOp'.stepInfos.operandAddress =
                (WordAt(ByteAfterOpcode, (ByteAfterOpcode + 1) % 256) + cpu.registerY) % 65536
       /\ (/\ lastOp'.kind = "Step"
           /\ panic' = "none"
           /\ lastOp'.stepInfos.opHexCode \in {161, 177}) =>
            cpu'.registerA = MemoryRead(bus, lastOp'.stepInfos.operandAddress)
    ]_vars

\* LDA ($FD,X) with X = 2 took its pointer at 0x00FF and 0x0000 (0x07 and
\* 0x00, where 0x0100 holds 0x03) and loaded the byte of 0x0007.
C24_Witness ==
    /\ Executed({"LDA"})
    /\ lastOp.stepInfos.opHexCode = 161
    /\ MemoryRead(bus, 1537) = 253
    /\ cpu.registerX = 2
    /\ MemoryRead(bus, 255) = 7
    /\ MemoryRead(bus, 0) = 0
    /\ MemoryRead(bus, 256) = 3
    /\ lastOp.stepInfos.operandAddress = 7
    /\ cpu.registerA = 7

---------------------------------------------------------------------------
(* Properties of the 16-bit accessors and of the PPU-register window *)

PpuMirrors(a) == {8192 + (a % 8) + (8 * k) : k \in {0, 1, 2, 511, 1023}}

\* C26 - PPU-register mirroring.  A read of an address a of 0x2000-0x3FFF
\* returns the byte of the register 0x2000 + (a mod 8) and changes nothing; a
\* write of v to a leaves the bus as a write of v to 0x2000 + (a mod 8) does,
\* so that every mirror of a reads v, and changes no other cell of the
\* storage and no byte read from RAM; and in every state all mirrors of a
\* register read the same byte.
C26_PpuMirroring ==
    /\ [][/\ (lastOp'.kind = "MemoryRead" /\ lastOp'.address \in 8192..16383) =>
            /\ lastOp'.result = ArrayGet(bus.memory, 8192 + (lastOp'.address % 8))
            /\ panic' = "none"
            /\ bus' = bus
       /\ (lastOp'.kind = "MemoryWrite" /\ lastOp'.address \in 8192..16383) =>
            /\ panic' = "none"
            /\ bus' = (MemoryWrite(bus, 8192 + (lastOp'.address % 8), lastOp'.data)).bus
            /\ \A mirror \in PpuMirrors(lastOp'.address) :
                  MemoryRead(bus', mirror) = lastOp'.data
            /\ \A j \in (DOMAIN bus.memory \cup DOMAIN bus'.memory)
                            \ {8192 + (lastOp'.address % 8)} :
                  ArrayGet(bus'.memory, j) = ArrayGet(bus.memory, j)
            /\ \A ram \in BusAddresses \cap 0..8191 :
                  MemoryRead(bus', ram) = MemoryRead(bus, ram)
       ]_vars
    /\ [](\A register \in 8192..8199 :
            \A mirror \in PpuMirrors(register) :
                MemoryRead(bus, mirror) = MemoryRead(bus, register))

\* A write of 0xA5 to the last mirror 0x3FFF is read back at 0x2007, while the
\* register 0 written through 0x2008 and the RAM cell 0 keep their 0xFF.
C26_Witness ==
    /\ lastOp.kind = "MemoryWrite"
    /\ lastOp.address = 16383
    /\ lastOp.data = 165
    /\ MemoryRead(bus, 8199) = 165
    /\ MemoryRead(bus, 8192) = 255
    /\ MemoryRead(bus, 8200) = 255
    /\ MemoryRead(bus, 0) = 255

---------------------------------------------------------------------------
(* Properties of the opcode table *)

KilOpHexCodes == {2, 18, 34, 50, 66, 82, 98, 114, 146, 178, 210, 242}

XaaOpHexCode == 139

\* C27 - KIL and XAA are fatal.  An iteration of Run that fetches one of the
\* KIL opcodes or XAA ends the run with a panic: Run neither returns nor goes
\* on to another iteration, and the registers and the bus are as they were.
C27_KilXaaFatal ==
    [][(lastOp'.kind = "Step"
            /\ MemoryRead(bus, cpu.programCounter) \in KilOpHexCodes \cup {XaaOpHexCode}) =>
        /\ lastOp'.stepInfos.opCode.operation
              = (IF MemoryRead(bus, cpu.programCounter) = XaaOpHexCode
                 THEN "*XAA" ELSE "*KIL")
        /\ run' = "panic"
        /\ panic' # "none"
        /\ cpu' = cpu
        /\ bus' = bus
    ]_vars

\* The KIL opcode 0xF2 at 0xC000 ended the run with the panic of CPU.kil.
C27_Witness ==
    /\ lastOp.kind = "Step"
    /\ lastOp.stepInfos.opHexCode = 242
    /\ cpu.programCounter = 49152
    /\ MemoryRead(bus, 49152) = 242
    /\ run = "panic"
    /\ panic = "kil"

OfficialOperations ==
    {"ADC", "AND", "ASL", "BCC", "BCS", "BEQ", "BIT", "BMI", "BNE", "BPL", "BRK",
     "BVC", "BVS", "CLC", "CLD", "CLI", "CLV", "CMP", "CPX", "CPY", "DEC", "DEX",
     "DEY", "EOR", "INC", "INX", "INY", "JMP", "JSR", "LDA", "LDX", "LDY", "LSR",
     "NOP", "ORA", "PHA", "PHP", "PLA", "PLP", "ROL", "ROR", "RTI", "RTS", "SBC",
     "SEC", "SED", "SEI", "STA", "STX", "STY", "TAX", "TAY", "TSX", "TXA", "TXS",
     "TYA"}

UndocumentedOperations ==
    {"*AAC", "*AAX", "*ARR", "*ASR", "*ATX", "*AXA", "*AXS", "*DCP", "*DOP",
     "*ISC", "*KIL", "*LAR", "*LAX", "*NOP", "*RLA", "*RRA", "*SBC", "*SLO",
     "*SRE", "*SXA", "*SYA", "*TOP", "*XAA", "*XAS"}

AddressingModes ==
    {"Implied", "Accumulator", "Immediate", "Relative", "ZeroPage", "ZeroPageX",
     "ZeroPageY", "Absolute", "AbsoluteX", "AbsoluteY", "Indirect", "IndirectX",
     "IndirectY"}

\* Every byte has a record in the table, of a mnemonic, an addressing mode and
\* a number of cycles, and 151 of the records have an official mnemonic.
TableIsTotal ==
    /\ DOMAIN hexToOpsCode = 0..255
    /\ \A hexCode \in 0..255 :
          /\ matchOpHexCodeWithOpCode(hexCode) # NoOpCode
          /\ matchOpHexCodeWithOpCode(hexCode).operation
                \in OfficialOperations \cup UndocumentedOperations
          /\ matchOpHexCodeWithOpCode(hexCode).addressingMode \in AddressingModes
          /\ matchOpHexCodeWithOpCode(hexCode).cycles \in 0..8
    /\ Cardinality({hexCode \in 0..255 :
                       matchOpHexCodeWithOpCode(hexCode).operation \in OfficialOperations})
          = 151

\* C28 - The opcode table is total.  Every opcode byte 0x00-0xFF has a record
\* in the table, 151 of the records with an official mnemonic; an iteration of
\* Run that fetched an opcode decoded the record of that byte, and no
\* iteration ends with the panic of an unknown opcode.
C28_TableTotal ==
    /\ TableIsTotal
    /\ panic # "UnsupportedHexCode"
    /\ (lastOp.kind = "Step" /\ lastOp.stepInfos.opHexCode \in 0..255) =>
          /\ lastOp.stepInfos.opCode = hexToOpsCode[lastOp.stepInfos.opHexCode]
          /\ lastOp.stepInfos.opCode # NoOpCode

\* The undocumented opcode 0xFF at 0x0200 was decoded (ISC in AbsoluteX) and
\* its iteration completed.
C28_Witness ==
    /\ lastOp.kind = "Step"
    /\ lastOp.stepInfos.opHexCode = 255
    /\ lastOp.stepInfos.opCode = OpCode("*ISC", "AbsoluteX", 7)
    /\ lastOp.before.programCounter = 512
    /\ cpu.programCounter = 515
    /\ panic = "none"

---------------------------------------------------------------------------
(* Properties of the shifts and rotates *)

\* The result of the operation on the byte v with the carry c.
Shifted(operation, v, c) ==
    CASE operation = "ASL" -> (2 * v) % 256
      [] operation = "LSR" -> v \div 2
      [] operation = "ROL" -> ((2 * v) % 256) + c
      [] operation = "ROR" -> (v \div 2) + (128 * c)

\* The bit of v that the operation shifts out.
ShiftedOut(operation, v) ==
    IF operation \in {"ASL", "ROL"} THEN Bit(v, 7) ELSE Bit(v, 0)

\* C30 - Shifts and rotates.  An iteration that executes ASL, LSR, ROL or ROR
\* on the byte v (A in Accumulator mode, the operand byte otherwise) with the
\* carry c leaves the result ((v << 1) mod 256, v >> 1, ((v << 1) mod 256) | c,
\* (v >> 1) | (c << 7)) in A or at the operand address, A and the rest of the
\* bus unchanged in the memory modes, C = the bit shifted out, Z and N of the
\* result, and the other registers and status bits unchanged; and a ROR that
\* follows a ROL of the same location leaves the byte and the carry as they
\* were before the ROL.
C30_ShiftsRotates ==
    [][/\ (lastOp'.kind = "Step" /\ lastOp'.stepInfos.opCode.operation
                                        \in {"ASL", "LSR", "ROL", "ROR"}) =>
            LET operation == lastOp'.stepInfos.opCode.operation
                accumulator == lastOp'.stepInfos.opCode.addressingMode = "Accumulator"
                address == lastOp'.stepInfos.operandAddress
                v == IF accumulator THEN cpu.registerA ELSE MemoryRead(bus, address)
                result == Shifted(operation, v, Bit(cpu.statusFlags, 0))
            IN  /\ panic' = "none"
                /\ IF accumulator
                   THEN cpu'.registerA = result /\ bus' = bus
                   ELSE /\ MemoryRead(bus', address) = result
                        /\ cpu'.registerA = cpu.registerA
                        /\ bus' = (MemoryWrite(bus, address, result)).bus
                /\ cpu'.statusFlags =
                       WithFlags(cpu.statusFlags, IF result = 0 THEN 1 ELSE 0,
                                 Bit(result, 7), ShiftedOut(operation, v),
                                 Bit(cpu.statusFlags, 6))
                /\ cpu'.registerX = cpu.registerX
                /\ cpu'.registerY = cpu.registerY
                /\ cpu'.stackPointer = cpu.stackPointer
       /\ (/\ Executes("ROR")
           /\ Executed({"ROL"})
           /\ lastOp'.stepInfos.opCode.addressingMode = lastOp.stepInfos.opCode.addressingMode
           /\ lastOp'.stepInfos.operandAddress = lastOp.stepInfos.operandAddress) =>
            /\ Bit(cpu'.statusFlags, 0) = Bit(lastOp.before.statusFlags, 0)
            /\ IF lastOp.stepInfos.opCode.addressingMode = "Accumulator"
               THEN cpu'.registerA = lastOp.before.registerA
               ELSE MemoryRead(bus', lastOp.stepInfos.operandAddress)
                        = (cpu.registerA + 171) % 256
    ]_vars

\* ROL $0310 on 0x81 with the carry clear left 0x02 and C = 1, and the ROR
\* after it left 0x81 at 0x0310 and the carry clear again, with N set.
C30_Witness ==
    /\ Executed({"ROR"})
    /\ steps = 2
    /\ lastOp.stepInfos.operandAddress = 784
    /\ MemoryRead(bus, 512) = 46
    /\ lastOp.before.statusFlags = 37
    /\ MemoryRead(bus, 784) = 129
    /\ cpu.registerA = 214
    /\ cpu.statusFlags = 164

---------------------------------------------------------------------------
(* Properties of the data movement and flag instructions *)

\* The operations that leave their result in A, in X, in Y and in memory.
ResultInA == {"LDA", "TXA", "TYA", "PLA", "AND", "ORA", "EOR"}

ResultInX == {"LDX", "TAX", "TSX", "INX", "DEX"}

ResultInY == {"LDY", "TAY", "INY", "DEY"}

ResultInMemory == {"INC", "DEC"}

Stores == {"STA", "STX", "STY", "TXS"}

\* The byte that the operation computes from the registers c and the operand
\* byte m; pulled is the byte in the stack slot above SP.
ResultOf(operation, c, m, pulled) ==
    CASE operation \in {"LDA", "LDX", "LDY"} -> m
      [] operation \in {"TAX", "TAY"} -> c.registerA
      [] operation = "TXA" -> c.registerX
      [] operation = "TYA" -> c.registerY
      [] operation = "TSX" -> c.stackPointer
      [] operation = "PLA" -> pulled
      [] operation = "INX" -> (c.registerX + 1) % 256
      [] operation = "INY" -> (c.registerY + 1) % 256
      [] operation = "DEX" -> (c.registerX + 255) % 256
      [] operation = "DEY" -> (c.registerY + 255) % 256
      [] operation = "INC" -> (m + 1) % 256
      [] operation = "DEC" -> (m + 255) % 256
      [] operation = "AND" -> AndOfBytes(c.registerA, m)
      [] operation = "ORA" -> c.registerA + m - AndOfBytes(c.registerA, m)
      [] operation = "EOR" -> c.registerA + m - (2 * AndOfBytes(c.registerA, m))

\* C31 - N and Z track the result.  An iteration that executes LDA, LDX, LDY,
\* TAX, TAY, TSX, TXA, TYA, PLA, INX, INY, DEX, DEY, INC, DEC, AND, ORA or EOR
\* writes its result (increments and decrements modulo 256) to its register
\* or memory byte and leaves Z = 1 iff that byte is 0, N = its bit 7, and
\* every other bit of P, C, V, D and I among them, as it was; and one that
\* executes STA, STX, STY or TXS leaves P as it was.
C31_ResultFlags ==
    [][(lastOp'.kind = "Step" /\ lastOp'.stepInfos.opCode.operation
            \in ResultInA \cup ResultInX \cup ResultInY \cup ResultInMemory \cup Stores) =>
        LET operation == lastOp'.stepInfos.opCode.operation
            address == lastOp'.stepInfos.operandAddress
        IN  /\ panic' = "none"
            /\ IF operation \in Stores
               THEN /\ cpu'.statusFlags = cpu.statusFlags
                    /\ operation = "STA" => MemoryRead(bus', address) = cpu.registerA
                    /\ operation = "STX" => MemoryRead(bus', address) = cpu.registerX
                    /\ operation = "STY" => MemoryRead(bus', address) = cpu.registerY
                    /\ operation = "TXS" => cpu'.stackPointer = cpu.registerX
               ELSE LET result == ResultOf(operation, cpu, MemoryRead(bus, address),
                                           MemoryRead(bus, StackSlot(cpu.stackPointer, 1)))
                    IN  /\ operation \in ResultInA => cpu'.registerA = result
                        /\ operation \in ResultInX => cpu'.registerX = result
                        /\ operation \in ResultInY => cpu'.registerY = result
                        /\ operation \in ResultInMemory =>
                               MemoryRead(bus', address) = result
                        /\ cpu'.statusFlags =
                               WithFlags(cpu.statusFlags, IF result = 0 THEN 1 ELSE 0,
                                         Bit(result, 7), Bit(cpu.statusFlags, 0),
                                         Bit(cpu.statusFlags, 6))
    ]_vars

\* INX from X = 0xFF with every flag set left X = 0, Z = 1, N = 0 and C, V, D
\* and I set.
C31_Witness ==
    /\ Executed({"INX"})
    /\ lastOp.before.registerX = 255
    /\ lastOp.before.statusFlags = 239
    /\ cpu.registerX = 0
    /\ cpu.statusFlags = 111

\* The status bit that a flag instruction writes, and the value it writes.
FlagBitOf(operation) ==
    CASE operation \in {"CLC", "SEC"} -> 0
      [] operation \in {"CLI", "SEI"} -> 2
      [] operation \in {"CLD", "SED"} -> 3
      [] operation = "CLV" -> 6

FlagValueOf(operation) == IF operation \in {"SEC", "SED", "SEI"} THEN 1 ELSE 0

FlagOperations == {"CLC", "SEC", "CLD", "SED", "CLI", "SEI", "CLV"}

\* C32 - Flag instructions.  An iteration that executes CLC, SEC, CLD, SED,
\* CLI, SEI or CLV leaves its own bit of P at 0 (CLx) or 1 (SEx) whatever it
\* was, every other bit of P, the registers and the bus as they were; and a
\* second execution of the same instruction leaves P as the first left it.
C32_FlagInstructions ==
    [][(lastOp'.kind = "Step"
            /\ lastOp'.stepInfos.opCode.operation \in FlagOperations) =>
        LET operation == lastOp'.stepInfos.opCode.operation
            k == FlagBitOf(operation)
        IN  /\ panic' = "none"
            /\ lastOp'.stepInfos.opHexCode \in FlagOpHexCodes
            /\ cpu'.statusFlags =
                   cpu.statusFlags + ((FlagValueOf(operation) - Bit(cpu.statusFlags, k))
                                       * (2 ^ k))
            /\ cpu' = [cpu EXCEPT !.statusFlags = cpu'.statusFlags,
                                  !.programCounter = (cpu.programCounter + 1) % 65536]
            /\ bus' = bus
            /\ (Executed({operation}) => cpu'.statusFlags = cpu.statusFlags)
    ]_vars

\* SEC on a set carry, after a first SEC that set it from clear.
C32_Witness ==
    /\ Executed({"SEC"})
    /\ steps = 2
    /\ lastOp.before.statusFlags = 37
    /\ cpu.statusFlags = 37
    /\ MemoryRead(bus, 512) = 56

---------------------------------------------------------------------------
(* Properties of the undocumented opcodes *)

\* The machine after the first of the two documented operations that the
\* combined operation stands for.
FirstOf(operation, m, stepInfos) ==
    CASE operation = "*LAX" -> lda(m, stepInfos)
      [] operation = "*DCP" -> dec(m, stepInfos)
      [] operation = "*ISC" -> inc(m, stepInfos)
      [] operation = "*SLO" -> asl(m, stepInfos)
      [] operation = "*RLA" -> rol(m, stepInfos)
      [] operation = "*SRE" -> lsr(m, stepInfos)
      [] operation = "*RRA" -> ror(m, stepInfos)

\* The machine after the second one, run on the machine m that the first left.
SecondOf(operation, m, stepInfos) ==
    IF Panicked(m) THEN m
    ELSE CASE operation = "*LAX" -> tax(m, stepInfos)
           [] operation = "*DCP" -> cmp(m, stepInfos)
           [] operation = "*ISC" -> sbc(m, stepInfos)
           [] operation = "*SLO" -> ora(m, stepInfos)
           [] operation = "*RLA" -> and(m, stepInfos)
           [] operation = "*SRE" -> eor(m, stepInfos)
           [] operation = "*RRA" -> adc(m, stepInfos)

\* The step ends as the machine composed: it panics iff composed did, and
\* otherwise leaves its registers, status register and bus.
EndsAsMachine(composed) ==
    /\ (panic' = "none") <=> ~Panicked(composed)
    /\ panic' = "none" =>
          /\ cpu'.registerA = composed.cpu.registerA
          /\ cpu'.registerX = composed.cpu.registerX
          /\ cpu'.registerY = composed.cpu.registerY
          /\ cpu'.stackPointer = composed.cpu.stackPointer
          /\ cpu'.statusFlags = composed.cpu.statusFlags
          /\ bus' = composed.bus

\* C33 - Undocumented combined opcodes.  An iteration that executes LAX, DCP,
\* ISC (ISB), SLO, RLA, SRE or RRA ends with the registers A, X, Y and SP, the
\* status register and the bus that LDA then TAX, DEC then CMP, INC then SBC,
\* ASL then ORA, ROL then AND, LSR then EOR, ROR then ADC leave when run in
\* sequence on the same operand address from the same state, and it panics
\* exactly when the sequence does.
C33_CombinedOpcodes ==
    [][(lastOp'.kind = "Step"
            /\ lastOp'.stepInfos.opCode.operation \in CombinedOperations) =>
        EndsAsMachine(
            SecondOf(lastOp'.stepInfos.opCode.operation,
                     FirstOf(lastOp'.stepInfos.opCode.operation, Machine(cpu, bus),
                             lastOp'.stepInfos),
                     lastOp'.stepInfos))
    ]_vars

\* RRA $10 on 0x03 with A = 0x55 and the carry set left 0x81 at 0x0010,
\* A = 0x55 + 0x81 + 1 = 0xD7, the carry clear and N set.
C33_Witness ==
    /\ Executed({"*RRA"})
    /\ lastOp.stepInfos.operandAddress = 16
    /\ lastOp.before.registerA = 85
    /\ lastOp.before.statusFlags = 37
    /\ MemoryRead(bus, 16) = 129
    /\ cpu.registerA = 215
    /\ cpu.statusFlags = 164

\* C34 - Multi-byte NOPs.  An iteration that executes DOP, TOP or an
\* undocumented NOP, whatever its operand bytes and the registers, completes
\* with PC advanced by 2, 3 or 1 and with A, X, Y, SP, P and the bus as they
\* were.
C34_NopsArePure ==
    [][(lastOp'.kind = "Step"
            /\ lastOp'.stepInfos.opCode.operation \in NopOperations) =>
        LET operation == lastOp'.stepInfos.opCode.operation
            size == CASE operation = "*DOP" -> 2
                      [] operation = "*TOP" -> 3
                      [] operation = "*NOP" -> 1
        IN  /\ panic' = "none"
            /\ cpu' = [cpu EXCEPT !.programCounter = (cpu.programCounter + size) % 65536]
            /\ bus' = bus
    ]_vars

\* C35 - AXS.  An iteration that executes AXS (0xCB) with the operand byte M
\* leaves X = ((A AND X) - M) mod 256, C = 1 iff (A AND X) >= M, N and Z of
\* the new X, and A and the bus as they were.
C35_Axs ==
    [][(lastOp'.kind = "Step" /\ lastOp'.stepInfos.opCode.operation = "*AXS") =>
        LET anded == AndOfBytes(cpu.registerA, cpu.registerX)
            operand == MemoryRead(bus, lastOp'.stepInfos.operandAddress)
            result == (anded - operand + 256) % 256
        IN  /\ panic' = "none"
            /\ lastOp'.stepInfos.opHexCode = AxsOpHexCode
            /\ cpu'.registerX = result
            /\ cpu'.statusFlags =
                   WithFlags(cpu.statusFlags, IF result = 0 THEN 1 ELSE 0,
                             Bit(result, 7), IF anded >= operand THEN 1 ELSE 0,
                             Bit(cpu.statusFlags, 6))
            /\ cpu'.registerA = cpu.registerA
            /\ bus' = bus
    ]_vars

---------------------------------------------------------------------------
(* Properties of the trace line *)

\* The iteration of Run from the machine m with the call of printCPUState
\* taken out: the machine reaches the dispatch as it was.
UntracedIteration(m, stepInfos) == RunExecute(m, stepInfos, m)

\* The step ends as the iteration it: same registers, bus and outcome.
EndsAs(it) ==
    /\ cpu' = it.m.cpu
    /\ bus' = it.m.bus
    /\ (panic' = "none") <=> ~Panicked(it.m)
    /\ (run' = "returned") <=> it.returned

\* C36 - Tracing is behaviour-neutral.  An iteration of Run that reaches the
\* call of printCPUState ends with the registers, the status register, the
\* bus and the outcome (panic or not, return or not) of the same iteration
\* without that call.
C36_TraceNeutral ==
    [][(/\ lastOp'.kind = "Step"
        /\ lastOp'.stepInfos.opCode # NoOpCode
        /\ ~IsPanic(lastOp'.stepInfos.operandAddress)) =>
        EndsAs(UntracedIteration(Machine(cpu, bus), lastOp'.stepInfos))
    ]_vars

---------------------------------------------------------------------------
(* Properties of the break flag *)

\* C38 - B flag.  In every state from the entry of Run on, whatever the
\* opcodes executed and whatever bytes PLP and RTI pulled, bit 4 of the
\* status register is 0; the byte that PHP writes at 0x0100 + SP has bit 4
\* set, and PHP leaves bit 4 of the status register clear.
C38_BreakFlag ==
    /\ [](Bit(cpu.statusFlags, 4) = 0)
    /\ [][Executes("PHP") =>
            /\ Bit(MemoryRead(bus', StackSlot(cpu.stackPointer, 0)), 4) = 1
            /\ Bit(cpu'.statusFlags, 4) = 0
       ]_vars

\* RTI pulled the status byte 0xFF from the slot above SP = 0x23 and left
\* P = 0xEF: every flag set but bit 4.
C38_Witness ==
    /\ Executed({"RTI"})
    /\ lastOp.before.stackPointer = 35
    /\ MemoryRead(bus, StackSlot(lastOp.before.stackPointer, 1)) = 255
    /\ cpu.statusFlags = 239

---------------------------------------------------------------------------
(* Properties of the console *)

\* C37 - Console wiring.  After NewConsole and RunRom(rom), the Bus that the
\* CPU reads through holds the cartridge that RunRom loaded, and the first
\* iteration of Run fetches the byte of that cartridge at the program counter
\* that Reset left.
C37_ConsoleWiring ==
    [][(lastOp'.kind = "Step" /\ steps = 0) =>
        /\ bus.rom = consoleBus.rom
        /\ lastOp'.stepInfos.opHexCode = MemoryRead(consoleBus, cpu.programCounter)
    ]_vars

---------------------------------------------------------------------------
(* Properties of the cartridge file *)

\* C39 - ROM parsing outcome.  For every input, of any length, ParseRawRom
\* returns a Rom or an error value: an error when bytes 0-3 are not
\* 0x4E 0x45 0x53 0x1A and when bits 2-3 of byte 7 are not both 0, and
\* otherwise a Rom whose PRG is the raw[4] * 16384 bytes that follow the
\* 16-byte header, or the 512-byte trainer after it when bit 2 of byte 6 is
\* set.
C39_ParseOutcome ==
    lastOp.kind = "ParseRawRom" =>
        LET raw == lastOp.raw
            result == lastOp.result
            tagged == /\ ArrayGet(raw.bytes, 0) = 78 /\ ArrayGet(raw.bytes, 1) = 69
                      /\ ArrayGet(raw.bytes, 2) = 83 /\ ArrayGet(raw.bytes, 3) = 26
            version2 == (ArrayGet(raw.bytes, 7) \div 4) % 4 # 0
            start == IF Bit(ArrayGet(raw.bytes, 6), 2) = 1 THEN 528 ELSE 16
            size == ArrayGet(raw.bytes, 4) * 16384
        IN  /\ result.kind \in {"rom", "error"}
            /\ (result.kind = "error") <=> (~tagged \/ version2)
            /\ result.kind = "rom" =>
                  /\ result.rom.prgRomLen = size
                  /\ DOMAIN result.rom.prgRom \subseteq 0..(size - 1)
                  /\ \A k \in ParseMarks :
                        (start <= k /\ k < start + size) =>
                            ArrayGet(result.rom.prgRom, k - start)
                                = ArrayGet(raw.bytes, k)

===========================================================================
